---------------------------- MODULE Spec2Model ----------------------------
(***************************************************************************)
(* Air-traffic conflict detection and A* resolution (atc_simulator.py).    *)
(*                                                                         *)
(* Number representation.  The program computes in binary floating point.  *)
(* Here every quantity is a fixed-point integer:                           *)
(*   positions      1/PosScale nautical miles                              *)
(*   speeds         knots, velocity components rounded to whole knots      *)
(*   altitudes      feet, or +infinity (float("inf") is accepted by the    *)
(*                  add-plane form); a vertical separation is a number,    *)
(*                  +infinity or NaN (inf - inf)                           *)
(*   headings       whole degrees, multiples of 5, sines from a table      *)
(*   costs g, h, f  1/CostScale                                            *)
(*   distances      1/DistScale nautical miles                             *)
(*   times          exact fractions [num, den] of an hour                  *)
(***************************************************************************)
EXTENDS Integers, Sequences, FiniteSets, TLC

\* ------------------------------------------------------------------------
\* Program constants
\* ------------------------------------------------------------------------
HORIZONTAL_MIN == 5
VERTICAL_MIN == 1000
ALTITUDE_FLOOR == 5000
SPEED_FLOOR == 200
max_search_nodes == 1000
TIME_STEP_SECONDS == 5
lookahead_time_min == 5

\* Fixed-point scales of the representation
PosScale == 8
SinScale == 1000
CostScale == 1000
DistScale == 1000

\* ------------------------------------------------------------------------
\* Arithmetic helpers
\* ------------------------------------------------------------------------
Abs(n) == IF n < 0 THEN -n ELSE n

Max(a, b) == IF b > a THEN b ELSE a

Min(a, b) == IF b < a THEN b ELSE a

\* n / d rounded to the nearest integer (d > 0), symmetric about zero
RDiv(n, d) == IF n >= 0 THEN (2 * n + d) \div (2 * d)
                        ELSE -((2 * (-n) + d) \div (2 * d))

RECURSIVE SqrtSearch(_, _, _)
SqrtSearch(n, lo, hi) ==
    IF lo >= hi THEN lo
    ELSE LET mid == (lo + hi + 1) \div 2
         IN  IF mid * mid <= n THEN SqrtSearch(n, mid, hi)
                               ELSE SqrtSearch(n, lo, mid - 1)

\* floor(sqrt(n)) for 0 <= n < 2^31
ISqrt(n) == SqrtSearch(n, 0, 46340)

\* the position value that stands for 1e200 miles, which float() reads
\* from the text "1e200"
HugeX == 1000000

\* v ** 2 raises OverflowError (the square exceeds the largest float):
\* true of a separation from a position of 1e200 miles
PowOverflows(v) == 2 * Abs(v) >= HugeX

\* sin(5k degrees) * SinScale, k = 0..18
Sin5 == <<0, 87, 174, 259, 342, 423, 500, 574, 643, 707,
          766, 819, 866, 906, 940, 966, 985, 996, 1000>>

\* math.sin(math.radians(h)) * SinScale for a heading h in [0,360)
SinT(h) ==
    IF h <= 90 THEN Sin5[h \div 5 + 1]
    ELSE IF h <= 180 THEN Sin5[(180 - h) \div 5 + 1]
    ELSE IF h <= 270 THEN -Sin5[(h - 180) \div 5 + 1]
    ELSE -Sin5[(360 - h) \div 5 + 1]

\* math.cos(math.radians(h)) * SinScale
CosT(h) == SinT((h + 90) % 360)

\* ------------------------------------------------------------------------
\* Altitudes: finite feet or +infinity
\* ------------------------------------------------------------------------
Ft(n) == [inf |-> FALSE, ft |-> n]

PosInf == [inf |-> TRUE, ft |-> 0]

\* z + d for a finite d
AltAdd(z, d) == IF z.inf THEN z ELSE Ft(z.ft + d)

\* max(floor, z): Python's max keeps the first argument unless the second
\* is greater
AltMax(floor, z) == IF z.inf THEN z ELSE Ft(Max(floor, z.ft))

\* abs(az - bz): a number, +infinity, or NaN when both are infinite
VSep(az, bz) ==
    IF az.inf /\ bz.inf THEN [k |-> "nan", v |-> 0]
    ELSE IF az.inf \/ bz.inf THEN [k |-> "inf", v |-> 0]
    ELSE [k |-> "num", v |-> Abs(az.ft - bz.ft)]

\* a comparison that takes NaN for a sufficient separation
VSepSafeNaN(vs) == vs.k # "num" \/ vs.v >= VERTICAL_MIN

\* a comparison that leaves out a separation of exactly VERTICAL_MIN
VSepSafeStrict(vs) == vs.k = "inf" \/ (vs.k = "num" /\ vs.v > VERTICAL_MIN)

\* vertical_sep >= Aircraft.VERTICAL_MIN (false for NaN)
VSepSafe(vs) == vs.k = "inf" \/ (vs.k = "num" /\ vs.v >= VERTICAL_MIN)

\* ------------------------------------------------------------------------
\* Aircraft
\* ------------------------------------------------------------------------
\* the heading value that stands for -1e-20 degrees, which float() reads
\* from the text "-1e-20"
NegEps == -1

\* h % 360 on floats: 360 - 1e-20 is rounded to 360.0, every other heading
\* here is a whole number of degrees
FloatMod360(h) == IF h = NegEps THEN 360 ELSE h % 360

\* Aircraft.__init__
Aircraft(callsign, x, y, z, speed_knots, heading_deg) ==
    [callsign |-> callsign, x |-> x, y |-> y, z |-> z, speed |-> speed_knots,
     heading |-> FloatMod360(heading_deg), conflict_alert |-> FALSE]

\* Aircraft.update_position over one time step of TIME_STEP_SECONDS
update_position(ac) ==
    [ac EXCEPT
       \* a float of 1e200 absorbs the increment
       !.x = IF PowOverflows(@) THEN @
             ELSE @ + RDiv(ac.speed * SinT(ac.heading) * TIME_STEP_SECONDS * PosScale,
                           3600 * SinScale),
       !.y = @ + RDiv(ac.speed * CosT(ac.heading) * TIME_STEP_SECONDS * PosScale,
                      3600 * SinScale)]

\* Maneuver.__init__
Maneuver(callsign, heading_change, altitude_change, speed_change) ==
    [callsign |-> callsign, heading_change |-> heading_change,
     altitude_change |-> altitude_change, speed_change |-> speed_change]

\* a cost that charges heading changes alone
cost_of_turns(m) == (Abs(m.heading_change) * CostScale) \div 10

\* Maneuver.cost, in 1/CostScale
cost(m) ==
    (Abs(m.heading_change) * CostScale) \div 10
    + (Abs(m.altitude_change) * CostScale) \div 2000
    + (Abs(m.speed_change) * CostScale) \div 250

\* a maneuver that touches a field only when its change is not zero
apply_maneuver_changed(ac, m) ==
    [ac EXCEPT
       !.heading = IF m.heading_change = 0 THEN @
                   ELSE FloatMod360(@ + m.heading_change),
       !.z = IF m.altitude_change = 0 THEN @
             ELSE AltMax(ALTITUDE_FLOOR, AltAdd(@, m.altitude_change)),
       !.speed = IF m.speed_change = 0 THEN @
                 ELSE Max(SPEED_FLOOR, @ + m.speed_change)]

\* Aircraft.apply_maneuver
apply_maneuver(ac, m) ==
    [ac EXCEPT
       !.heading = FloatMod360(@ + m.heading_change),
       !.z = AltMax(ALTITUDE_FLOOR, AltAdd(@, m.altitude_change)),
       !.speed = Max(SPEED_FLOOR, @ + m.speed_change)]

\* ------------------------------------------------------------------------
\* ConflictState: the joint state of the two aircraft of one search
\* ------------------------------------------------------------------------
\* the tuple (x, y, z, speed, heading) a ConflictState holds per callsign
StateTuple(ac) ==
    [x |-> ac.x, y |-> ac.y, z |-> ac.z, speed |-> ac.speed, heading |-> ac.heading]

\* ConflictState.get_aircraft_data
get_aircraft_data(aircraft_states, callsign) ==
    IF callsign \in DOMAIN aircraft_states
    THEN aircraft_states[callsign]
    ELSE [x |-> 0, y |-> 0, z |-> Ft(0), speed |-> 0, heading |-> 0]

\* round(v, 0) of a position held in 1/PosScale: the nearest whole mile,
\* ties to the even one (Python rounds half to even), in whole miles
Round0(v) ==
    LET q == v \div PosScale
        r == v % PosScale
    IN  IF 2 * r < PosScale THEN q
        ELSE IF 2 * r > PosScale THEN q + 1
        ELSE IF q % 2 = 0 THEN q ELSE q + 1

\* ConflictState.__hash__: the quantized tuple that is hashed.  Altitude,
\* speed and heading are whole numbers here, which round(., 0) and
\* round(., 1) leave as they are; an infinite altitude stays infinite.
StateHash(aircraft_states) ==
    [c \in DOMAIN aircraft_states |->
        [x |-> Round0(aircraft_states[c].x), y |-> Round0(aircraft_states[c].y),
         z |-> aircraft_states[c].z, speed |-> aircraft_states[c].speed,
         heading |-> aircraft_states[c].heading]]

\* ------------------------------------------------------------------------
\* ConflictResolver: closest point of approach and heuristic
\* ------------------------------------------------------------------------
\* math.sqrt(rx**2 + ry**2) of a separation held in 1/PosScale, in 1/DistScale
Dist(rx, ry) ==
    (ISqrt((rx * rx + ry * ry) * 625) * DistScale) \div (25 * PosScale)

\* the separation now, taken for the separation at tcpa
DistNow(rx, ry, vrx, vry) == Dist(rx, ry)

\* sqrt(min_sep_x**2 + min_sep_y**2) at tcpa = -(r.v)/|v|^2.  The separation
\* vector r + v*tcpa is the component of r perpendicular to v, whose length
\* is |rx*vry - ry*vrx| / |v|; in 1/DistScale.
DistAtCpa(rx, ry, vrx, vry) ==
    (Abs(rx * vry - ry * vrx) * ((DistScale * 10) \div PosScale))
        \div ISqrt((vrx * vrx + vry * vry) * 100)

\* speed * math.sin(math.radians(heading)), whole knots
VelX(speed, heading) == RDiv(speed * SinT(heading), SinScale)

\* speed * math.cos(math.radians(heading)), whole knots
VelY(speed, heading) == RDiv(speed * CosT(heading), SinScale)

\* a horizontal distance: finite, in 1/DistScale, or float('inf')
FinDist(d) == [inf |-> FALSE, d |-> d]

InfDist == [inf |-> TRUE, d |-> 0]

\* _calculate_cpa from the relative position (rx, ry) and velocity
\* (vrx, vry) on: lookahead in minutes, tcpa = num / den a fraction of an hour
cpa_of(vertical_sep, rx, ry, vrx, vry, lookahead_min) ==
    LET v_rel_sq == vrx * vrx + vry * vry
        tnum == -(rx * vrx + ry * vry)
        tden == PosScale * v_rel_sq
        min_sep_dist == IF tnum < 0 THEN Dist(rx, ry)
                                    ELSE DistAtCpa(rx, ry, vrx, vry)
        end_sep_dist == Dist(rx + RDiv(vrx * lookahead_min * PosScale, 60),
                             ry + RDiv(vry * lookahead_min * PosScale, 60))
    IN  IF VSepSafe(vertical_sep)
        THEN [h_dist |-> InfDist, v_sep |-> vertical_sep,
              tcpa |-> [num |-> 0, den |-> 1]]
        ELSE IF v_rel_sq * 1000 < 1
        THEN [h_dist |-> FinDist(Dist(rx, ry)), v_sep |-> vertical_sep,
              tcpa |-> [num |-> lookahead_min, den |-> 120]]
        ELSE [h_dist |-> FinDist(IF tnum * 60 > lookahead_min * tden
                                 THEN Min(min_sep_dist, end_sep_dist)
                                 ELSE min_sep_dist),
              v_sep |-> vertical_sep,
              tcpa |-> [num |-> Max(0, tnum), den |-> tden]]

\* _calculate_cpa for the data tuples a and b of the two aircraft
cpa_between(a, b, lookahead_min) ==
    cpa_of(VSep(a.z, b.z), b.x - a.x, b.y - a.y,
           VelX(b.speed, b.heading) - VelX(a.speed, a.heading),
           VelY(b.speed, b.heading) - VelY(a.speed, a.heading), lookahead_min)

\* ConflictResolver._calculate_cpa
calculate_cpa(aircraft_states, A, B, lookahead_min) ==
    cpa_between(get_aircraft_data(aircraft_states, A),
                get_aircraft_data(aircraft_states, B), lookahead_min)

\* a heuristic that takes the larger of the two deficiencies, not their sum
penalty_larger(h_dist, h_v_sep) ==
    Max(IF h_dist.inf THEN 0
        ELSE (Max(0, HORIZONTAL_MIN * DistScale - h_dist.d) * 5 * CostScale)
                 \div (HORIZONTAL_MIN * DistScale),
        IF h_v_sep.k = "num"
        THEN (Max(0, VERTICAL_MIN - h_v_sep.v) * 5 * CostScale) \div VERTICAL_MIN
        ELSE 0)

\* a heuristic that looks at the horizontal separation alone
penalty_horizontal(h_dist, h_v_sep) ==
    IF h_dist.inf THEN 0
    ELSE (Max(0, HORIZONTAL_MIN * DistScale - h_dist.d) * 5 * CostScale)
             \div (HORIZONTAL_MIN * DistScale)

\* _heuristic from the value _calculate_cpa returned, in 1/CostScale
penalty(h_dist, h_v_sep) ==
    LET \* max(0, H_MIN - h_dist) / H_MIN * 5.0
        horizontal_penalty ==
            IF h_dist.inf THEN 0
            ELSE (Max(0, HORIZONTAL_MIN * DistScale - h_dist.d) * 5 * CostScale)
                     \div (HORIZONTAL_MIN * DistScale)
        \* max(0, V_MIN - h_v_sep) / V_MIN * 5.0; max(0, nan) is 0
        vertical_penalty ==
            IF h_v_sep.k = "num"
            THEN (Max(0, VERTICAL_MIN - h_v_sep.v) * 5 * CostScale) \div VERTICAL_MIN
            ELSE 0
    IN  IF (h_dist.inf \/ h_dist.d >= HORIZONTAL_MIN * DistScale) /\ VSepSafe(h_v_sep)
        THEN 0
        ELSE horizontal_penalty + vertical_penalty

\* h_dist, h_v_sep, _ = self._calculate_cpa(state)
penalty_of(out) == penalty(out.h_dist, out.v_sep)

\* a heuristic that scores every state as terminal
heuristic_zero(aircraft_states, A, B, lookahead_min) == 0

\* ConflictResolver._heuristic, in 1/CostScale
heuristic(aircraft_states, A, B, lookahead_min) ==
    penalty_of(calculate_cpa(aircraft_states, A, B, lookahead_min))

\* ------------------------------------------------------------------------
\* heapq on a list of node numbers, ordered by ConflictState.__lt__
\* (positions are 1-based here: parent of p is p \div 2, children 2p, 2p+1)
\* ------------------------------------------------------------------------
\* ConflictState.__lt__
Lt(nodes, i, j) == nodes[i].f_cost < nodes[j].f_cost

RECURSIVE SiftDownLoop(_, _, _, _, _)
SiftDownLoop(heap, nodes, startpos, pos, newitem) ==
    IF pos > startpos /\ Lt(nodes, newitem, heap[pos \div 2])
    THEN SiftDownLoop([heap EXCEPT ![pos] = heap[pos \div 2]], nodes, startpos,
                      pos \div 2, newitem)
    ELSE [heap EXCEPT ![pos] = newitem]

\* heapq._siftdown
siftdown(heap, nodes, startpos, pos) ==
    SiftDownLoop(heap, nodes, startpos, pos, heap[pos])

RECURSIVE SiftUpLoop(_, _, _, _, _)
SiftUpLoop(heap, nodes, startpos, pos, newitem) ==
    LET childpos == 2 * pos
        rightpos == childpos + 1
        pick == IF rightpos <= Len(heap) /\ ~Lt(nodes, heap[childpos], heap[rightpos])
                THEN rightpos ELSE childpos
    IN  IF childpos <= Len(heap)
        THEN SiftUpLoop([heap EXCEPT ![pos] = heap[pick]], nodes, startpos, pick, newitem)
        ELSE siftdown([heap EXCEPT ![pos] = newitem], nodes, startpos, pos)

\* heapq._siftup
siftup(heap, nodes, pos) == SiftUpLoop(heap, nodes, pos, pos, heap[pos])

\* heapq.heappush
heappush(heap, nodes, item) ==
    siftdown(Append(heap, item), nodes, 1, Len(heap) + 1)

\* heapq.heappop: the item returned and the heap left
heappop(heap, nodes) ==
    LET lastelt == heap[Len(heap)]
        rest == SubSeq(heap, 1, Len(heap) - 1)
    IN  IF rest # <<>>
        THEN [item |-> heap[1],
              heap |-> siftup([rest EXCEPT ![1] = lastelt], nodes, 1)]
        ELSE [item |-> lastelt, heap |-> rest]

\* ------------------------------------------------------------------------
\* ConflictResolver.a_star_search
\* ------------------------------------------------------------------------
\* a catalogue whose altitude changes are 500 feet
MANEUVER_OPTIONS_500(A, B) ==
    <<Maneuver(A, -10, 0, 0), Maneuver(A, 10, 0, 0),
      Maneuver(A, -5, 0, 0), Maneuver(A, 5, 0, 0),
      Maneuver(B, -10, 0, 0), Maneuver(B, 10, 0, 0),
      Maneuver(B, -5, 0, 0), Maneuver(B, 5, 0, 0),
      Maneuver(A, 0, -500, 0), Maneuver(A, 0, 500, 0),
      Maneuver(B, 0, -500, 0), Maneuver(B, 0, 500, 0)>>

\* ConflictResolver.__init__: the action catalogue, in the order built
MANEUVER_OPTIONS(A, B) ==
    <<Maneuver(A, -10, 0, 0), Maneuver(A, 10, 0, 0),
      Maneuver(A, -5, 0, 0), Maneuver(A, 5, 0, 0),
      Maneuver(B, -10, 0, 0), Maneuver(B, 10, 0, 0),
      Maneuver(B, -5, 0, 0), Maneuver(B, 5, 0, 0),
      Maneuver(A, 0, -1000, 0), Maneuver(A, 0, 1000, 0),
      Maneuver(B, 0, -1000, 0), Maneuver(B, 0, 1000, 0)>>

\* the maneuver of the root node (None)
NoManeuver == Maneuver("", 0, 0, 0)

\* ConflictState.__init__ followed by the assignment of h_cost and f_cost;
\* parent is a node number, 0 for None
ConflictState(aircraft_states, g_cost, h_cost, parent, maneuver) ==
    [aircraft_states |-> aircraft_states, g_cost |-> g_cost, h_cost |-> h_cost,
     f_cost |-> g_cost + h_cost, parent |-> parent, maneuver |-> maneuver]

\* the local state of a_star_search before its loop: the initial state on
\* the open list
started(A, B, lookahead_min, initial_state, state_hash) ==
    [A |-> A, B |-> B, lookahead_min |-> lookahead_min,
     nodes |-> <<initial_state>>, open_list |-> <<1>>,
     g_scores |-> [h \in {state_hash} |-> 0],
     nodes_explored |-> 0, status |-> "running", path |-> <<>>]

\* the search on initial_aircraft_data before its loop
a_star_from(initial_aircraft_data, A, B, lookahead_min) ==
    started(A, B, lookahead_min,
            ConflictState(initial_aircraft_data, 0,
                          heuristic(initial_aircraft_data, A, B, lookahead_min),
                          0, NoManeuver),
            StateHash(initial_aircraft_data))

\* the search before its loop
a_star_init(a, b, lookahead_min) ==
    a_star_from([c \in {a.callsign, b.callsign} |->
                    IF c = b.callsign THEN StateTuple(b) ELSE StateTuple(a)],
                a.callsign, b.callsign, lookahead_min)

RECURSIVE PathBack(_, _)
\* a walk over the parent links that leaves out the newest maneuver
PathBackShort(nodes, n) ==
    IF nodes[n].parent = 0 THEN <<>> ELSE PathBack(nodes, nodes[n].parent)

\* the walk over the parent links: newest maneuver first
PathBack(nodes, n) ==
    IF nodes[n].parent = 0 THEN <<>>
    ELSE <<nodes[n].maneuver>> \o PathBack(nodes, nodes[n].parent)

\* path[::-1]
Reverse(s) == [i \in 1..Len(s) |-> s[Len(s) + 1 - i]]

\* a test that lets no successor through
consider_none(S, successor, state_hash) == S

\* a test that lets a successor of equal g through
consider_equal(S, successor, state_hash) ==
    IF state_hash \in DOMAIN S.g_scores /\ successor.g_cost > S.g_scores[state_hash]
    THEN S
    ELSE [S EXCEPT
            !.g_scores = [h \in DOMAIN S.g_scores \cup {state_hash} |->
                             IF h = state_hash THEN successor.g_cost
                                               ELSE S.g_scores[h]],
            !.nodes = Append(@, successor),
            !.open_list = heappush(@, Append(S.nodes, successor), Len(S.nodes) + 1)]

\* the successor is pushed unless an equal or cheaper path to its hash is
\* recorded
consider(S, successor, state_hash) ==
    IF state_hash \in DOMAIN S.g_scores /\ successor.g_cost >= S.g_scores[state_hash]
    THEN S
    ELSE [S EXCEPT
            !.g_scores = [h \in DOMAIN S.g_scores \cup {state_hash} |->
                             IF h = state_hash THEN successor.g_cost
                                               ELSE S.g_scores[h]],
            !.nodes = Append(@, successor),
            !.open_list = heappush(@, Append(S.nodes, successor), Len(S.nodes) + 1)]

\* the successor state with its h_cost and f_cost
scored(S, new_aircraft_states, g_cost, current, maneuver) ==
    ConflictState(new_aircraft_states, g_cost,
                  heuristic(new_aircraft_states, S.A, S.B, S.lookahead_min),
                  current, maneuver)

\* the joint state new_aircraft_states as a successor of node current
generated(S, new_aircraft_states, g_cost, current, maneuver) ==
    consider(S, scored(S, new_aircraft_states, g_cost, current, maneuver),
             StateHash(new_aircraft_states))

\* a successor in which the maneuver is applied to both aircraft
SuccessorBoth(S, current, maneuver) ==
    generated(S,
              [c \in DOMAIN S.nodes[current].aircraft_states |->
                  apply_maneuver(S.nodes[current].aircraft_states[c], maneuver)],
              S.nodes[current].g_cost + cost(maneuver), current, maneuver)

\* the successor of node number current under one maneuver: generated,
\* scored, and pushed unless an equal or cheaper path to its hash is recorded
Successor(S, current, maneuver) ==
    generated(S,
              [S.nodes[current].aircraft_states EXCEPT
                  ![maneuver.callsign] = apply_maneuver(@, maneuver)],
              S.nodes[current].g_cost + cost(maneuver), current, maneuver)

RECURSIVE Expand(_, _, _, _)
\* the for loop over MANEUVER_OPTIONS (the loop has no exit but its end)
Expand(S, current, options, i) ==
    IF i > Len(options) \/ S.status # "running" THEN S
    ELSE Expand(Successor(S, current, options[i]), current, options, i + 1)

\* a loop condition without the node budget
LoopGuardNoBudget(S) == S.open_list # <<>>

\* the loop condition of a_star_search
LoopGuard(S) == S.open_list # <<>> /\ S.nodes_explored < max_search_nodes

\* one iteration of the while loop: pop, then return the path or expand
a_star_iteration(S) ==
    LET popped == heappop(S.open_list, S.nodes)
        current_state == popped.item
        S1 == [S EXCEPT !.nodes_explored = @ + 1, !.open_list = popped.heap]
    IN  IF S.nodes[current_state].h_cost = 0
        THEN [S1 EXCEPT !.status = "found",
                        !.path = Reverse(PathBack(S.nodes, current_state))]
        ELSE Expand(S1, current_state, MANEUVER_OPTIONS(S.A, S.B), 1)

\* leaving the loop without a path: return None
a_star_fail(S) == [S EXCEPT !.status = "none"]

RECURSIVE a_star_run(_, _)
\* the while loop for at most n iterations more (the iterations are split in
\* halves, which keeps the nesting of the evaluation shallow)
a_star_run(S, n) ==
    IF S.status # "running" \/ ~LoopGuard(S) THEN S
    ELSE IF n <= 1 THEN a_star_iteration(S)
    ELSE a_star_run(a_star_run(S, n \div 2), n - n \div 2)

\* the end of a_star_search when the while loop has been left with S
a_star_end(S) == IF S.status = "running" THEN a_star_fail(S) ELSE S

\* the while loop, which takes max_search_nodes iterations at most, and
\* the return that follows it
a_star_loop(S) == a_star_end(a_star_run(S, max_search_nodes))

\* what a_star_search returns when it leaves with the local state S
returned(S) ==
    [found |-> S.status = "found", path |-> S.path,
     nodes_explored |-> S.nodes_explored]

\* ConflictResolver(controller, (a, b), lookahead).a_star_search():
\* [found |-> FALSE] for None, else the maneuver list
a_star_search(a, b, lookahead_min) ==
    returned(a_star_loop(a_star_init(a, b, lookahead_min)))

\* ------------------------------------------------------------------------
\* State
\* ------------------------------------------------------------------------
VARIABLES
    aircraft_list,        \* ATC_Controller.aircraft_list
    resolved_maneuvers,   \* ATC_Controller.resolved_maneuvers: callsign -> queue
    running,              \* ATCSimulatorGUI.running
    current_time_seconds, \* ATCSimulatorGUI.current_time_seconds
    pending,              \* sim_step callbacks scheduled with after() and not yet run
    last_step,            \* what the latest sim_step computed on its way
    message,              \* the messagebox shown last
    pair,       \* the conflict pair (A, B) a ConflictResolver is built for
    cpa,        \* the value _calculate_cpa returned for the pair, once called
    search      \* the local state of a_star_search on the pair

controller_vars ==
    <<aircraft_list, resolved_maneuvers, running, current_time_seconds, pending,
      last_step, message>>

resolver_vars == <<pair, cpa, search>>

vars == <<controller_vars, resolver_vars>>

\* ------------------------------------------------------------------------
\* ResolverSpec: _calculate_cpa and a_star_search on bounded starting pairs,
\* one loop iteration of the search per step
\* ------------------------------------------------------------------------
\* miles to position units
NM(n) == n * PosScale

\* starting pairs with finite altitudes: A eastbound from (-20, 0)
FinitePairs ==
    { [a |-> Aircraft("AAL123", NM(-20), 0, Ft(za), sa, 90),
       b |-> Aircraft("UAL456", NM(bx), NM(by), Ft(zb), 450, hb)] :
        za \in {30000, 5000, 4000}, sa \in {450, 500},
        bx \in {20, 80, -16, 0}, by \in {0, -20, 3},
        zb \in {30000, 30500, 31000, 4500}, hb \in {270, 90, 0} }

\* starting pairs with both altitudes infinite (vertical separation NaN):
\* head-on 40 miles apart, and both at the same position
InfinitePairs ==
    { [a |-> Aircraft("AAL123", NM(-20), 0, PosInf, 450, 90),
       b |-> Aircraft("UAL456", NM(20), 0, PosInf, 450, 270)],
      [a |-> Aircraft("AAL123", 0, 0, PosInf, 450, 90),
       b |-> Aircraft("UAL456", 0, 0, PosInf, 450, 270)] }

StartPairs == FinitePairs \cup InfinitePairs

\* the joint state of the pair as a_star_search first builds it
InitialData(p) ==
    [c \in {p.a.callsign, p.b.callsign} |->
        IF c = p.b.callsign THEN StateTuple(p.b) ELSE StateTuple(p.a)]

\* the roster __main__ registers
MainRoster ==
    <<Aircraft("AAL123", NM(-20), 0, Ft(30000), 450, 90),
      Aircraft("UAL456", NM(20), 0, Ft(30000), 450, 270),
      Aircraft("SWA789", NM(-10), NM(-20), Ft(35000), 500, 45),
      Aircraft("DAL001", NM(10), NM(-20), Ft(34000), 500, 135)>>

\* the value of last_step before any sim_step has run
NoStep ==
    [ran |-> FALSE, raised |-> FALSE, conflicts |-> <<>>, trace |-> <<>>,
     scanned |-> <<>>, queued |-> <<>>, discarded |-> FALSE]

\* ATC_Controller.__init__, the roster of __main__, ATCSimulatorGUI.__init__
ControllerInit ==
    /\ aircraft_list = MainRoster
    /\ resolved_maneuvers = <<>>
    /\ running = FALSE
    /\ current_time_seconds = 0
    /\ pending = 0
    /\ last_step = NoStep
    /\ message = "none"

ResolverInit ==
    /\ ControllerInit
    /\ pair \in StartPairs
    /\ cpa = [done |-> FALSE]
    /\ search = [status |-> "idle"]

\* resolver._calculate_cpa(initial_state)
CalcCpa ==
    /\ ~cpa.done
    /\ cpa' = [done |-> TRUE,
               out |-> calculate_cpa(InitialData(pair), pair.a.callsign,
                                     pair.b.callsign, lookahead_time_min)]
    /\ UNCHANGED <<controller_vars, pair, search>>

\* a_star_search up to the while loop
AStarBegin ==
    /\ cpa.done
    /\ search.status = "idle"
    /\ search' = a_star_init(pair.a, pair.b, lookahead_time_min)
    /\ UNCHANGED <<controller_vars, pair, cpa>>

\* one iteration of the while loop
AStarIterate ==
    /\ search.status = "running"
    /\ LoopGuard(search)
    /\ search' = a_star_iteration(search)
    /\ UNCHANGED <<controller_vars, pair, cpa>>

\* the loop ends without a path
AStarReturnNone ==
    /\ search.status = "running"
    /\ ~LoopGuard(search)
    /\ search' = a_star_fail(search)
    /\ UNCHANGED <<controller_vars, pair, cpa>>

ResolverNext == CalcCpa \/ AStarBegin \/ AStarIterate \/ AStarReturnNone

ResolverSpec == ResolverInit /\ [][ResolverNext]_vars

\* ------------------------------------------------------------------------
\* ATC_Controller
\* ------------------------------------------------------------------------
\* ATC_Controller.add_aircraft
add_aircraft(list, aircraft) == Append(list, aircraft)

\* conflict_alert = True on every aircraft
SetAlertsAll(list, i, j) ==
    [k \in 1..Len(list) |-> [list[k] EXCEPT !.conflict_alert = TRUE]]

\* conflict_alert = True on the aircraft at position i alone
SetAlertsOne(list, i, j) ==
    [k \in 1..Len(list) |->
        IF k = i THEN [list[k] EXCEPT !.conflict_alert = TRUE] ELSE list[k]]

\* conflict_alert = True on the aircraft at positions i and j
SetAlerts(list, i, j) ==
    [k \in 1..Len(list) |->
        IF k = i \/ k = j THEN [list[k] EXCEPT !.conflict_alert = TRUE] ELSE list[k]]

\* a test that looks at the second aircraft of the pair only
second_queued(queues, a, b) == b.callsign \in DOMAIN queues

\* a.callsign in self.resolved_maneuvers or b.callsign in self.resolved_maneuvers
already_queued(queues, a, b) ==
    a.callsign \in DOMAIN queues \/ b.callsign \in DOMAIN queues

RECURSIVE Enqueue(_, _, _)
\* an insert at the front of the queue in place of the append
EnqueueFront(queues, resolution_path, k) ==
    IF k > Len(resolution_path) THEN queues
    ELSE LET m == resolution_path[k]
             c == m.callsign
         IN  Enqueue([d \in DOMAIN queues \cup {c} |->
                         IF d = c
                         THEN <<m>> \o (IF c \in DOMAIN queues THEN queues[c] ELSE <<>>)
                         ELSE queues[d]],
                     resolution_path, k + 1)

\* resolved_maneuvers.setdefault(maneuver.callsign, []).append(maneuver)
\* for the maneuvers of resolution_path from position k on
Enqueue(queues, resolution_path, k) ==
    IF k > Len(resolution_path) THEN queues
    ELSE LET m == resolution_path[k]
             c == m.callsign
         IN  Enqueue([d \in DOMAIN queues \cup {c} |->
                         IF d = c
                         THEN (IF c \in DOMAIN queues THEN queues[c] ELSE <<>>) \o <<m>>
                         ELSE queues[d]],
                     resolution_path, k + 1)

\* f"In {tcpa * 60:.1f} min": the tenths of a minute that are printed
TimeToConflict(tnum, tden) == RDiv(tnum * 600, tden)

\* the pair at positions i, j has been handled: branch names the way the
\* loop body was left, path is what a_star_search returned, if it was called
Visit(C, i, j, branch, path) ==
    [C EXCEPT !.trace = Append(@, [i |-> i, j |-> j, branch |-> branch,
                                   path |-> path])]

\* a scan in which the search leaves a maneuvered copy in the aircraft at
\* position i
ResolveInPlace(C, i, j, tenths, min_sep_dist, vertical_sep, resolution) ==
    Visit([C EXCEPT
             !.aircraft_list[i] = apply_maneuver(@, Maneuver(@.callsign, 0, -1000, 0)),
             !.resolved_maneuvers = IF resolution.found
                                    THEN Enqueue(@, resolution.path, 1) ELSE @],
          i, j, IF resolution.found THEN "resolved" ELSE "failed", resolution.path)

\* the pair at positions i, j after a_star_search has returned resolution:
\* the maneuvers are queued or the two aircraft flagged, and the pair is
\* reported
Resolve(C, i, j, tenths, min_sep_dist, vertical_sep, resolution) ==
    IF resolution.found /\ resolution.path # <<>>
    THEN Visit([C EXCEPT
                  !.resolved_maneuvers = Enqueue(@, resolution.path, 1),
                  !.conflicts = Append(@,
                      [a |-> C.aircraft_list[i].callsign,
                       b |-> C.aircraft_list[j].callsign, time |-> "In",
                       tenths |-> tenths, h_dist |-> min_sep_dist,
                       v_dist |-> vertical_sep, status |-> "RESOLVED",
                       steps |-> Len(resolution.path)])],
               i, j, "resolved", resolution.path)
    ELSE Visit([C EXCEPT
                  !.aircraft_list = SetAlerts(@, i, j),
                  !.conflicts = Append(@,
                      [a |-> C.aircraft_list[i].callsign,
                       b |-> C.aircraft_list[j].callsign, time |-> "In",
                       tenths |-> tenths, h_dist |-> min_sep_dist,
                       v_dist |-> vertical_sep, status |-> "FAILED",
                       steps |-> 0])],
               i, j, "failed", <<>>)

\* the body of the pair loop of check_for_conflicts for positions i < j.
\* C carries aircraft_list, resolved_maneuvers, the conflicts list, the
\* trace of the pairs handled so far, and whether an exception left the
\* method (OverflowError from ** on a separation of the order of 1e200).
check_pair(C, i, j, lookahead_min) ==
    LET a == C.aircraft_list[i]
        b == C.aircraft_list[j]
        vertical_sep == VSep(a.z, b.z)
        vrx == VelX(b.speed, b.heading) - VelX(a.speed, a.heading)
        vry == VelY(b.speed, b.heading) - VelY(a.speed, a.heading)
        rx == b.x - a.x
        ry == b.y - a.y
        v_rel_sq == vrx * vrx + vry * vry
        dist_current == Dist(rx, ry)
        tnum == -(rx * vrx + ry * vry)
        tden == PosScale * v_rel_sq
        min_sep_dist == DistAtCpa(rx, ry, vrx, vry)
    IN  IF already_queued(C.resolved_maneuvers, a, b)
        THEN Visit(C, i, j, "queued", <<>>)
        ELSE IF VSepSafe(vertical_sep)
        THEN Visit(C, i, j, "vertical", <<>>)
        ELSE IF v_rel_sq * 1000 < 1
        THEN IF PowOverflows(rx)
             THEN Visit([C EXCEPT !.raised = TRUE], i, j, "raised", <<>>)  \* rx**2
             ELSE IF dist_current < HORIZONTAL_MIN * DistScale
             THEN Visit([C EXCEPT
                           !.aircraft_list = SetAlerts(@, i, j),
                           !.conflicts = Append(@,
                               [a |-> a.callsign, b |-> b.callsign,
                                time |-> "Immediate", tenths |-> 0,
                                h_dist |-> dist_current, v_dist |-> vertical_sep,
                                status |-> "NO_RES_ATTEMPTED", steps |-> 0])],
                        i, j, "immediate", <<>>)
             ELSE Visit(C, i, j, "parallel", <<>>)
        ELSE IF PowOverflows(rx)
        THEN IF vrx # 0
             \* tcpa is of the order of 1e197 hours, of either sign
             THEN Visit(C, i, j, "clear", <<>>)
             ELSE IF -(ry * vry) >= 0 /\ -(ry * vry) * 60 <= lookahead_min * tden
             THEN Visit([C EXCEPT !.raised = TRUE], i, j, "raised", <<>>)
                                                                   \* min_sep_x**2
             ELSE Visit(C, i, j, "clear", <<>>)
        ELSE IF tnum >= 0 /\ tnum * 60 <= lookahead_min * tden
                /\ min_sep_dist < HORIZONTAL_MIN * DistScale
        THEN Resolve(C, i, j, TimeToConflict(tnum, tden), min_sep_dist,
                     vertical_sep, a_star_search(a, b, lookahead_min))
        ELSE Visit(C, i, j, "clear", <<>>)

RECURSIVE InnerLoop(_, _, _, _)
\* for j in range(i + 1, n), from j on
InnerLoop(C, i, j, lookahead_min) ==
    IF j > Len(C.aircraft_list) \/ C.raised THEN C
    ELSE InnerLoop(check_pair(C, i, j, lookahead_min), i, j + 1, lookahead_min)

RECURSIVE PairLoop(_, _, _)
\* for i in range(n), from i on
PairLoop(C, i, lookahead_min) ==
    IF i > Len(C.aircraft_list) \/ C.raised THEN C
    ELSE PairLoop(InnerLoop(C, i, i + 1, lookahead_min), i + 1, lookahead_min)

\* a scan that starts from the queues it finds
keep_queues(queues) == queues

\* self.resolved_maneuvers.clear()
clear(queues) == <<>>

\* ATC_Controller.check_for_conflicts; queues is resolved_maneuvers as the
\* call finds it, which cleared keeps for the record
check_for_conflicts(list, queues, lookahead_min) ==
    PairLoop([aircraft_list |-> [k \in 1..Len(list) |->
                                    [list[k] EXCEPT !.conflict_alert = FALSE]],
              resolved_maneuvers |-> clear(queues),
              conflicts |-> <<>>,
              trace |-> <<>>,
              raised |-> FALSE,
              cleared |-> queues],
             1, lookahead_min)

RECURSIVE ApplyLoop(_, _, _)
\* the loop of apply_resolved_maneuvers from position k on
ApplyLoop(list, queues, k) ==
    IF k > Len(list) THEN [aircraft_list |-> list, resolved_maneuvers |-> queues]
    ELSE LET ac == list[k]
             c == ac.callsign
         IN  IF c \in DOMAIN queues /\ queues[c] # <<>>
             THEN LET maneuver == Head(queues[c])
                      maneuver_list == Tail(queues[c])
                  IN  ApplyLoop([list EXCEPT ![k] = apply_maneuver(ac, maneuver)],
                                IF maneuver_list = <<>>
                                THEN [d \in DOMAIN queues \ {c} |-> queues[d]]
                                ELSE [queues EXCEPT ![c] = maneuver_list],
                                k + 1)
             ELSE ApplyLoop(list, queues, k + 1)

\* the loop without the del of a queue that has become empty
apply_keep_empty(list, queues) ==
    LET R == ApplyLoop(list, queues, 1)
    IN  [aircraft_list |-> R.aircraft_list,
         resolved_maneuvers |->
             [c \in DOMAIN queues |->
                 IF c \in DOMAIN R.resolved_maneuvers THEN R.resolved_maneuvers[c]
                                                      ELSE <<>>]]

RECURSIVE ApplyWhole(_, _)
\* every maneuver of queue applied to ac, in queue order
ApplyWhole(ac, queue) ==
    IF queue = <<>> THEN ac
    ELSE ApplyWhole(apply_maneuver(ac, Head(queue)), Tail(queue))

\* a call that applies the whole queue of each aircraft at once
apply_whole_queues(list, queues) ==
    [aircraft_list |->
         [k \in 1..Len(list) |->
             IF list[k].callsign \in DOMAIN queues
             THEN ApplyWhole(list[k], queues[list[k].callsign]) ELSE list[k]],
     resolved_maneuvers |-> <<>>]

\* ATC_Controller.apply_resolved_maneuvers
apply_resolved_maneuvers(list, queues) == ApplyLoop(list, queues, 1)

\* ------------------------------------------------------------------------
\* ATCSimulatorGUI and AddPlaneDialog
\* ------------------------------------------------------------------------
\* bounds of the model
MaxTicks == 2
MaxAircraft == 6
MaxPending == 2

\* str.upper() on the callsigns that are typed into the form
Upper(text) ==
    CASE text = "aal123" -> "AAL123"
      [] text = "new123" -> "NEW123"
      [] text = "par1" -> "PAR1"
      [] text = "par9" -> "PAR9"
      [] text = "inf1" -> "INF1"
      [] text = "inf2" -> "INF2"
      [] text = "inf3" -> "INF3"
      [] text = "far1" -> "FAR1"
      [] text = "eps1" -> "EPS1"
      [] text = "div1" -> "DIV1"
      [] text = "low1" -> "LOW1"
      [] text = "low2" -> "LOW2"
      [] OTHER -> text

\* what is typed into the add-plane form; numeric is FALSE when float()
\* raises ValueError on one of the five number fields
FormEntries ==
    { [callsign |-> "new123", x |-> 0, y |-> NM(-20), z |-> Ft(30000),
       speed |-> 450, heading |-> 0, numeric |-> TRUE],
      [callsign |-> "par1", x |-> NM(-20), y |-> NM(3), z |-> Ft(29500),
       speed |-> 450, heading |-> 90, numeric |-> TRUE],
      [callsign |-> "par9", x |-> NM(-10), y |-> NM(-10), z |-> Ft(35500),
       speed |-> 500, heading |-> 45, numeric |-> TRUE],
      [callsign |-> "inf1", x |-> NM(-20), y |-> NM(60), z |-> PosInf,
       speed |-> 450, heading |-> 90, numeric |-> TRUE],
      [callsign |-> "inf2", x |-> NM(20), y |-> NM(60), z |-> PosInf,
       speed |-> 450, heading |-> 270, numeric |-> TRUE],
      [callsign |-> "far1", x |-> HugeX, y |-> 0, z |-> Ft(35000),
       speed |-> 500, heading |-> 45, numeric |-> TRUE],
      [callsign |-> "aal123", x |-> 0, y |-> 0, z |-> Ft(33000),
       speed |-> 450, heading |-> 0, numeric |-> TRUE],
      [callsign |-> "NEW123", x |-> 0, y |-> 0, z |-> Ft(33000),
       speed |-> 450, heading |-> 360, numeric |-> TRUE],
      [callsign |-> "new123", x |-> 0, y |-> 0, z |-> Ft(33000),
       speed |-> 450, heading |-> 0, numeric |-> FALSE] }

\* entries more: a heading of -1e-20 degrees; an aircraft at an infinite
\* altitude two miles ahead of INF1, flying towards it; an aircraft two
\* miles north of DAL001 at its altitude, flying away from it; and two
\* aircraft below the altitude and speed floors, flying towards each other
MoreEntries ==
    { [callsign |-> "eps1", x |-> NM(40), y |-> NM(40), z |-> Ft(40000),
       speed |-> 450, heading |-> NegEps, numeric |-> TRUE],
      [callsign |-> "inf3", x |-> NM(-18), y |-> NM(60), z |-> PosInf,
       speed |-> 450, heading |-> 270, numeric |-> TRUE],
      [callsign |-> "div1", x |-> NM(10), y |-> NM(-18), z |-> Ft(34000),
       speed |-> 500, heading |-> 315, numeric |-> TRUE],
      [callsign |-> "low1", x |-> NM(-10), y |-> NM(40), z |-> Ft(4000),
       speed |-> 150, heading |-> 90, numeric |-> TRUE],
      [callsign |-> "low2", x |-> NM(10), y |-> NM(40), z |-> Ft(4500),
       speed |-> 150, heading |-> 270, numeric |-> TRUE] }

\* a test that looks at the first aircraft only
CallsignExistsFirst(list, callsign) ==
    list # <<>> /\ list[1].callsign = callsign

\* any(ac.callsign == callsign for ac in self.controller.aircraft_list)
CallsignExists(list, callsign) ==
    \E k \in 1..Len(list) : list[k].callsign = callsign

\* AddPlaneDialog.add_aircraft: the aircraft_list it leaves and the
\* messagebox it shows
dialog_add_aircraft(list, entry) ==
    LET callsign == Upper(entry.callsign)
    IN  IF ~entry.numeric
        THEN [aircraft_list |-> list, message |-> "Please enter valid numbers."]
        ELSE IF CallsignExists(list, callsign)
        THEN [aircraft_list |-> list, message |-> "already exists"]
        ELSE [aircraft_list |->
                  add_aircraft(list, Aircraft(callsign, entry.x, entry.y, entry.z,
                                              entry.speed, entry.heading)),
              message |-> "added successfully"]

\* sim_step after check_for_conflicts has returned C: apply, advance.
\* An exception in check_for_conflicts leaves sim_step at once.
after_scan(C) ==
    [aircraft_list |->
         IF C.raised THEN C.aircraft_list
         ELSE [k \in 1..Len(C.aircraft_list) |->
                  update_position(
                      apply_resolved_maneuvers(C.aircraft_list,
                                               C.resolved_maneuvers).aircraft_list[k])],
     resolved_maneuvers |->
         IF C.raised THEN C.resolved_maneuvers
         ELSE apply_resolved_maneuvers(C.aircraft_list,
                                       C.resolved_maneuvers).resolved_maneuvers,
     step |-> [ran |-> TRUE, raised |-> C.raised, conflicts |-> C.conflicts,
               trace |-> C.trace, scanned |-> C.aircraft_list,
               queued |-> C.resolved_maneuvers,
               discarded |-> C.cleared # <<>>]]

\* a step that applies the queues it finds before it scans
sim_step_stale(list, queues) ==
    after_scan(check_for_conflicts(
                   apply_resolved_maneuvers(list, queues).aircraft_list,
                   queues, lookahead_time_min))

\* the part of sim_step after the running test: scan, apply, advance
sim_step(list, queues) ==
    after_scan(check_for_conflicts(list, queues, lookahead_time_min))

\* the end of sim_step with running true, T being what the step computed:
\* the clock moves on and after(.., sim_step) schedules the next step,
\* which an exception on the way does not reach
Finish(T, pending_before) ==
    /\ aircraft_list' = T.aircraft_list
    /\ resolved_maneuvers' = T.resolved_maneuvers
    /\ last_step' = T.step
    /\ current_time_seconds' =
           IF T.step.raised THEN current_time_seconds
           ELSE current_time_seconds + TIME_STEP_SECONDS
    /\ pending' = IF T.step.raised THEN pending_before ELSE pending_before + 1

\* one execution of sim_step with running true
Tick(pending_before) ==
    /\ current_time_seconds < MaxTicks * TIME_STEP_SECONDS
    /\ Finish(sim_step(aircraft_list, resolved_maneuvers), pending_before)

\* ATCSimulatorGUI.start_sim (the button is disabled while running)
StartSim ==
    /\ ~running
    /\ pending < MaxPending
    /\ running' = TRUE
    /\ Tick(pending)
    /\ UNCHANGED <<message, resolver_vars>>

\* ATCSimulatorGUI.stop_sim (the button is enabled while running)
StopSim ==
    /\ running
    /\ running' = FALSE
    /\ UNCHANGED <<aircraft_list, resolved_maneuvers, current_time_seconds, pending,
                   last_step, message, resolver_vars>>

\* a scheduled sim_step callback runs while the simulation is running
TimerStep ==
    /\ pending > 0
    /\ running
    /\ Tick(pending - 1)
    /\ UNCHANGED <<running, message, resolver_vars>>

\* a scheduled sim_step callback runs after stop_sim: it returns at once
TimerIdle ==
    /\ pending > 0
    /\ ~running
    /\ pending' = pending - 1
    /\ UNCHANGED <<aircraft_list, resolved_maneuvers, running, current_time_seconds,
                   last_step, message, resolver_vars>>

\* ATCSimulatorGUI.restart_sim (the button is disabled while running)
RestartSim ==
    /\ ~running
    /\ aircraft_list' = MainRoster
    /\ current_time_seconds' = 0
    /\ message' = "Simulation restarted successfully"
    /\ UNCHANGED <<resolved_maneuvers, running, pending, last_step, resolver_vars>>

\* the Add Aircraft button of AddPlaneDialog
AddPlane ==
    \E entry \in FormEntries :
        /\ Len(aircraft_list) < MaxAircraft
        /\ aircraft_list' = dialog_add_aircraft(aircraft_list, entry).aircraft_list
        /\ message' = dialog_add_aircraft(aircraft_list, entry).message
        /\ UNCHANGED <<resolved_maneuvers, running, current_time_seconds, pending,
                       last_step, resolver_vars>>

Init ==
    /\ ControllerInit
    /\ pair = [a |-> MainRoster[1], b |-> MainRoster[2]]
    /\ cpa = [done |-> FALSE]
    /\ search = [status |-> "idle"]

Next == StartSim \/ StopSim \/ TimerStep \/ TimerIdle \/ RestartSim \/ AddPlane

Spec == Init /\ [][Next]_vars

\* ------------------------------------------------------------------------
\* ScanSpec: sim_step on the rosters that two submissions of the add-plane
\* form leave, with no aircraft added and no restart once the simulation
\* has been started
\* ------------------------------------------------------------------------
\* aircraft_list after the form has been submitted with first, then second
Submitted(first, second) ==
    dialog_add_aircraft(dialog_add_aircraft(MainRoster, first).aircraft_list,
                        second).aircraft_list

ScanRosters ==
    { Submitted(first, second) : first, second \in FormEntries \cup MoreEntries }

ScanInit ==
    /\ aircraft_list \in ScanRosters
    /\ resolved_maneuvers = <<>>
    /\ running = FALSE
    /\ current_time_seconds = 0
    /\ pending = 0
    /\ last_step = NoStep
    /\ message = "none"
    /\ pair = [a |-> MainRoster[1], b |-> MainRoster[2]]
    /\ cpa = [done |-> FALSE]
    /\ search = [status |-> "idle"]

ScanNext == StartSim \/ StopSim \/ TimerStep \/ TimerIdle

ScanSpec == ScanInit /\ [][ScanNext]_vars

\* ------------------------------------------------------------------------
\* Properties
\* ------------------------------------------------------------------------
\* a trace entry of a pair for which a_star_search was called
IsSearch(e) == e.branch \in {"resolved", "failed"}

\* the searches dispatched in the latest scan
Dispatched == SelectSeq(last_step.trace, IsSearch)

\* the callsigns of the pair of a trace entry of the latest scan
SearchPair(e) ==
    {last_step.scanned[e.i].callsign, last_step.scanned[e.j].callsign}

\* C1: within one scan every aircraft is in the pair of at most one
\* dispatched a_star_search (the rosters here have four aircraft or more).
C1_AtMostOneSearchPerAgent ==
    \A m, n \in 1..Len(Dispatched) :
        m # n => SearchPair(Dispatched[m]) \cap SearchPair(Dispatched[n]) = {}

\* C2: a_star_search pops at most max_search_nodes nodes and then stops with
\* a maneuver list or with None; it returns None only when the open list is
\* empty or the budget is used up, and then it carries no path.
C2_SearchWithinBudget ==
    search.status # "idle" =>
        /\ search.status \in {"running", "found", "none"}
        /\ search.nodes_explored \in 0..max_search_nodes
        /\ search.status = "none" =>
               /\ search.open_list = <<>> \/ search.nodes_explored = max_search_nodes
               /\ search.path = <<>>
        /\ search.status = "running" =>
               (LoopGuard(search) <=> search.nodes_explored < max_search_nodes
                                      /\ search.open_list # <<>>)

\* a search that found no terminal node gave up when the budget ran out
C2_BudgetExhausted ==
    search.status = "none" /\ search.nodes_explored = max_search_nodes

RECURSIVE Replay(_, _, _)
\* apply_maneuver for the maneuvers of path, in order from position k on
Replay(aircraft_states, path, k) ==
    IF k > Len(path) THEN aircraft_states
    ELSE Replay([aircraft_states EXCEPT
                    ![path[k].callsign] = apply_maneuver(@, path[k])],
                path, k + 1)

\* the joint state of two aircraft of the roster
PairData(a, b) == InitialData([a |-> a, b |-> b])

\* a and b fly towards each other, east and west, on one line, 40 miles
\* apart, at equal altitude and speed, and meet within the lookahead
HeadOn40(a, b) ==
    /\ a.z = b.z
    /\ a.speed = b.speed
    /\ a.y = b.y
    /\ a.heading = 90 /\ b.heading = 270
    /\ b.x - a.x = NM(40)
    /\ 40 * 60 <= 2 * a.speed * lookahead_time_min

\* the separation after path is sufficient horizontally
HorizontallySafe(a, b, path) ==
    LET out == calculate_cpa(Replay(PairData(a, b), path, 1), a.callsign,
                             b.callsign, lookahead_time_min)
    IN  out.h_dist.inf \/ out.h_dist.d >= HORIZONTAL_MIN * DistScale

RelSpeedSq(a, b) ==
    LET vrx == VelX(b.speed, b.heading) - VelX(a.speed, a.heading)
        vry == VelY(b.speed, b.heading) - VelY(a.speed, a.heading)
    IN  vrx * vrx + vry * vry

\* relative speed squared < 0.001
Negligible(a, b) == RelSpeedSq(a, b) * 1000 < 1

\* the current horizontal distance of a and b is below HORIZONTAL_MIN
NearNow(a, b) ==
    /\ ~PowOverflows(b.x - a.x)
    /\ Dist(b.x - a.x, b.y - a.y) < HORIZONTAL_MIN * DistScale

\* the latest scan reported the pair a, b with this time and status
Reported(a, b, time, status) ==
    \E r \in 1..Len(last_step.conflicts) :
        /\ last_step.conflicts[r].a = a.callsign
        /\ last_step.conflicts[r].b = b.callsign
        /\ last_step.conflicts[r].time = time
        /\ last_step.conflicts[r].status = status

\* the latest scan reported the pair a, b in some way
ReportedAtAll(a, b) ==
    \E r \in 1..Len(last_step.conflicts) :
        /\ last_step.conflicts[r].a = a.callsign
        /\ last_step.conflicts[r].b = b.callsign

\* when the scan came to its n-th pair, an earlier search of the same scan
\* had put a maneuver for one of the two aircraft in resolved_maneuvers
QueuedBefore(n) ==
    \E m \in 1..(n - 1) :
        \E k \in 1..Len(last_step.trace[m].path) :
            /\ last_step.trace[m].branch = "resolved"
            /\ last_step.trace[m].path[k].callsign \in SearchPair(last_step.trace[n])

VerticallyApart(a, b) ==
    \/ a.z.inf # b.z.inf
    \/ ~a.z.inf /\ ~b.z.inf /\ Abs(a.z.ft - b.z.ft) >= VERTICAL_MIN

\* a and b come within HORIZONTAL_MIN of each other within the lookahead
ConvergingWithin(a, b) ==
    LET vrx == VelX(b.speed, b.heading) - VelX(a.speed, a.heading)
        vry == VelY(b.speed, b.heading) - VelY(a.speed, a.heading)
        rx == b.x - a.x
        ry == b.y - a.y
        tnum == -(rx * vrx + ry * vry)
    IN  /\ ~PowOverflows(rx)
        /\ RelSpeedSq(a, b) > 0
        /\ tnum >= 0
        /\ tnum * 60 <= lookahead_time_min * PosScale * RelSpeedSq(a, b)
        /\ DistAtCpa(rx, ry, vrx, vry) < HORIZONTAL_MIN * DistScale

\* C6: for a pair with |zA - zB| >= VERTICAL_MIN _calculate_cpa returns an
\* infinite horizontal separation, the vertical separation and time 0, the
\* heuristic is 0, and the scan neither reports the pair nor sets a flag for
\* it nor calls a_star_search on it.
C6_VerticallyApartIsSafe ==
    \A n \in 1..Len(last_step.trace) :
        LET e == last_step.trace[n]
            a == last_step.scanned[e.i]
            b == last_step.scanned[e.j]
            out == calculate_cpa(PairData(a, b), a.callsign, b.callsign,
                                 lookahead_time_min)
        IN  VerticallyApart(a, b) =>
                /\ out.h_dist = InfDist
                /\ out.v_sep.k = IF a.z.inf \/ b.z.inf THEN "inf" ELSE "num"
                /\ out.v_sep.k = "num" => out.v_sep.v = Abs(a.z.ft - b.z.ft)
                /\ out.tcpa.num = 0
                /\ heuristic(PairData(a, b), a.callsign, b.callsign,
                             lookahead_time_min) = 0
                /\ e.branch \in {"queued", "vertical"}
                /\ ~ReportedAtAll(a, b)

\* a scan has passed over a vertically separated pair that comes within
\* HORIZONTAL_MIN horizontally within the lookahead
C6_ConvergingPairSkipped ==
    \E n \in 1..Len(last_step.trace) :
        /\ last_step.trace[n].branch = "vertical"
        /\ ConvergingWithin(last_step.scanned[last_step.trace[n].i],
                            last_step.scanned[last_step.trace[n].j])

\* equal altitude, and b moves straight at a: the relative velocity points
\* along the line from b to a
CollisionCourse(a, b) ==
    LET vrx == VelX(b.speed, b.heading) - VelX(a.speed, a.heading)
        vry == VelY(b.speed, b.heading) - VelY(a.speed, a.heading)
        rx == b.x - a.x
        ry == b.y - a.y
    IN  /\ a.z = b.z
        /\ rx * vry - ry * vrx = 0
        /\ rx * vrx + ry * vry < 0

\* the current distance is at most the closing speed times the lookahead
MeetWithinLookahead(a, b) ==
    Dist(b.x - a.x, b.y - a.y) * 60
        <= ISqrt(RelSpeedSq(a, b)) * lookahead_time_min * DistScale

\* the reading of C7 as it is stated: on a collision course at equal
\* altitude _calculate_cpa returns horizontal separation 0 and a time t
\* with 0 <= t <= lookahead.
C7_CollisionWithinLookahead ==
    (cpa.done /\ CollisionCourse(pair.a, pair.b)) =>
        /\ cpa.out.h_dist = FinDist(0)
        /\ cpa.out.tcpa.num >= 0
        /\ cpa.out.tcpa.num * 60 <= lookahead_time_min * cpa.out.tcpa.den

\* C7: on a collision course at equal altitude _calculate_cpa returns
\* horizontal separation 0 and a time t >= 0, and t <= lookahead exactly
\* when the current distance is at most the closing speed times the
\* lookahead.
C7_CollisionAtTimeOfMeeting ==
    (cpa.done /\ CollisionCourse(pair.a, pair.b)) =>
        /\ cpa.out.h_dist = FinDist(0)
        /\ cpa.out.tcpa.num >= 0
        /\ cpa.out.tcpa.num * 60 <= lookahead_time_min * cpa.out.tcpa.den
               <=> MeetWithinLookahead(pair.a, pair.b)

\* _calculate_cpa has returned a time beyond the lookahead for a pair on a
\* collision course
C7_CollisionBeyondLookahead ==
    /\ cpa.done
    /\ CollisionCourse(pair.a, pair.b)
    /\ cpa.out.tcpa.num * 60 > lookahead_time_min * cpa.out.tcpa.den

\* C8: an entry whose upper-cased callsign is in aircraft_list is rejected
\* and leaves aircraft_list as it is, and no two aircraft of aircraft_list
\* have the same callsign.
C8_CallsignsUnique ==
    /\ \A m, n \in 1..Len(aircraft_list) :
           m # n => aircraft_list[m].callsign # aircraft_list[n].callsign
    /\ \A entry \in FormEntries :
           (entry.numeric
            /\ \E k \in 1..Len(aircraft_list) :
                   aircraft_list[k].callsign = Upper(entry.callsign))
           => /\ dialog_add_aircraft(aircraft_list, entry).aircraft_list
                    = aircraft_list
              /\ dialog_add_aircraft(aircraft_list, entry).message
                    = "already exists"

\* the form has rejected the callsign of an aircraft that was added through
\* the form before
C8_DuplicateRejected ==
    /\ message = "already exists"
    /\ Len(aircraft_list) > Len(MainRoster)

\* C9: every execution of sim_step with running true runs to its end: no
\* exception leaves check_for_conflicts.
C9_TickCompletes == last_step.ran => ~last_step.raised

\* heading, altitude and speed of an aircraft
Attitude(ac) == <<ac.heading, ac.z, ac.speed>>

\* this step is a sim_step that ran to its end
TickCompleted ==
    /\ last_step'.ran
    /\ ~last_step'.raised
    /\ current_time_seconds' = current_time_seconds + TIME_STEP_SECONDS

\* what apply_resolved_maneuvers did in a completed sim_step, aircraft by
\* aircraft, and that no queue is left empty
OneManeuverPerTick ==
    /\ \A c \in DOMAIN resolved_maneuvers' : resolved_maneuvers'[c] # <<>>
    /\ TickCompleted =>
          /\ DOMAIN resolved_maneuvers' \subseteq DOMAIN last_step'.queued
          /\ \A k \in 1..Len(last_step'.scanned) :
                LET ac == last_step'.scanned[k]
                    c == ac.callsign
                    q == last_step'.queued
                IN  IF c \in DOMAIN q
                    THEN /\ Attitude(aircraft_list'[k])
                              = Attitude(apply_maneuver(ac, Head(q[c])))
                         /\ IF Len(q[c]) = 1
                            THEN c \notin DOMAIN resolved_maneuvers'
                            ELSE /\ c \in DOMAIN resolved_maneuvers'
                                 /\ resolved_maneuvers'[c] = Tail(q[c])
                    ELSE /\ Attitude(aircraft_list'[k]) = Attitude(ac)
                         /\ c \notin DOMAIN resolved_maneuvers'

\* C10: one apply_resolved_maneuvers call applies the head of the queue of
\* each aircraft that has a queue and removes it, applies nothing to the
\* others, and deletes a queue that has become empty, so that
\* resolved_maneuvers holds no empty queue.
C10_OneManeuverPerTick == [][OneManeuverPerTick]_vars

\* a sim_step has taken the first of two queued maneuvers of one aircraft
\* and the only queued maneuver of another
C10_QueueShortenedAndDeleted ==
    /\ last_step.ran
    /\ \E c \in DOMAIN resolved_maneuvers :
           /\ c \in DOMAIN last_step.queued
           /\ Len(last_step.queued[c]) = 2
           /\ resolved_maneuvers[c] = Tail(last_step.queued[c])
    /\ \E c \in DOMAIN last_step.queued :
           Len(last_step.queued[c]) = 1 /\ c \notin DOMAIN resolved_maneuvers

RECURSIVE Naming(_, _, _)
\* the maneuvers of path that name callsign c, in the order of path, from
\* position k on
Naming(path, c, k) ==
    IF k > Len(path) THEN <<>>
    ELSE (IF path[k].callsign = c THEN <<path[k]>> ELSE <<>>)
             \o Naming(path, c, k + 1)

RECURSIVE PlannedFor(_, _)
\* the maneuvers that name c in the plans the searches of the first n pairs
\* of the latest scan returned, in the order of the scan
PlannedFor(c, n) ==
    IF n = 0 THEN <<>>
    ELSE PlannedFor(c, n - 1)
             \o (IF last_step.trace[n].branch = "resolved"
                 THEN Naming(last_step.trace[n].path, c, 1) ELSE <<>>)

\* the aircraft at position k is in a pair other than the n-th that the
\* latest scan flagged
FlaggedElsewhere(k, n) ==
    \E m \in 1..Len(last_step.trace) :
        /\ m # n
        /\ last_step.trace[m].branch \in {"failed", "immediate"}
        /\ k \in {last_step.trace[m].i, last_step.trace[m].j}

\* the latest scan reported the pair a, b as RESOLVED in this many steps
ReportedResolved(a, b, steps) ==
    \E r \in 1..Len(last_step.conflicts) :
        /\ last_step.conflicts[r].a = a.callsign
        /\ last_step.conflicts[r].b = b.callsign
        /\ last_step.conflicts[r].status = "RESOLVED"
        /\ last_step.conflicts[r].steps = steps

\* C11: the queue of each aircraft at the end of a scan holds the maneuvers
\* that name it in the plans the searches of the scan returned, in plan
\* order, and no queue exists for an aircraft no plan names; a pair whose
\* search returned a plan is reported RESOLVED with the length of the plan
\* and sets no flag of its own; a pair whose search returned no plan has
\* nothing enqueued, both aircraft flagged and the report FAILED.
C11_PlanQueuedOrPairFlagged ==
    /\ \A c \in DOMAIN last_step.queued :
           \E k \in 1..Len(last_step.scanned) : last_step.scanned[k].callsign = c
    /\ \A k \in 1..Len(last_step.scanned) :
           LET c == last_step.scanned[k].callsign
               q == PlannedFor(c, Len(last_step.trace))
           IN  IF q = <<>> THEN c \notin DOMAIN last_step.queued
               ELSE c \in DOMAIN last_step.queued /\ last_step.queued[c] = q
    /\ \A n \in 1..Len(last_step.trace) :
           LET e == last_step.trace[n]
               a == last_step.scanned[e.i]
               b == last_step.scanned[e.j]
           IN  /\ e.branch = "resolved" =>
                      /\ e.path # <<>>
                      /\ ReportedResolved(a, b, Len(e.path))
                      /\ a.conflict_alert => FlaggedElsewhere(e.i, n)
                      /\ b.conflict_alert => FlaggedElsewhere(e.j, n)
               /\ e.branch = "failed" =>
                      /\ e.path = <<>>
                      /\ Reported(a, b, "In", "FAILED")
                      /\ a.conflict_alert /\ b.conflict_alert

\* a scan in which one search returned a plan of two maneuvers for one
\* aircraft
TwoManeuversQueued ==
    \E n \in 1..Len(last_step.trace) :
        /\ last_step.trace[n].branch = "resolved"
        /\ \E c \in DOMAIN last_step.queued :
               /\ Len(last_step.queued[c]) >= 2
               /\ last_step.queued[c] = Naming(last_step.trace[n].path, c, 1)

\* a scan in which a search returned no plan
ScanFailed ==
    \E n \in 1..Len(last_step.trace) : last_step.trace[n].branch = "failed"

\* a scan in which one search returned a plan, which is queued, and
\* another search returned none
C11_PlanAndFailure ==
    /\ ScanFailed
    /\ \E n \in 1..Len(last_step.trace) :
           /\ last_step.trace[n].branch = "resolved"
           /\ \E c \in DOMAIN last_step.queued :
                  last_step.queued[c] = Naming(last_step.trace[n].path, c, 1)

\* this step is an execution of sim_step with running true
Ticked ==
    last_step' # last_step \/ current_time_seconds' > current_time_seconds

\* what the reading of C12 as it is stated asks of a completed sim_step: a
\* queue that the step finds in resolved_maneuvers loses its head, which is
\* applied to its aircraft, and lives on with the rest while there is one
QueueDrained ==
    TickCompleted =>
        \A k \in 1..Len(aircraft_list) :
            LET c == aircraft_list[k].callsign
            IN  c \in DOMAIN resolved_maneuvers =>
                    /\ Attitude(aircraft_list'[k])
                           = Attitude(apply_maneuver(aircraft_list[k],
                                                     Head(resolved_maneuvers[c])))
                    /\ IF Len(resolved_maneuvers[c]) = 1
                       THEN c \notin DOMAIN resolved_maneuvers'
                       ELSE /\ c \in DOMAIN resolved_maneuvers'
                            /\ resolved_maneuvers'[c] = Tail(resolved_maneuvers[c])

\* the reading of C12 as it is stated: every queued maneuver is applied to
\* its aircraft, one in each sim_step in queue order, and a queue stays
\* until its last maneuver has been applied.
C12_QueueDrainedOverTicks == [][QueueDrained]_vars

\* what a completed sim_step applies comes from the queues its own scan
\* built; steps other than sim_step leave resolved_maneuvers alone
OnlyHeadApplied ==
    /\ ~Ticked => resolved_maneuvers' = resolved_maneuvers
    /\ TickCompleted =>
           \A k \in 1..Len(aircraft_list) :
               LET c == aircraft_list[k].callsign
                   q == last_step'.queued
               IN  IF c \in DOMAIN q
                   THEN /\ Attitude(aircraft_list'[k])
                               = Attitude(apply_maneuver(aircraft_list[k], Head(q[c])))
                        /\ IF Len(q[c]) = 1
                           THEN c \notin DOMAIN resolved_maneuvers'
                           ELSE /\ c \in DOMAIN resolved_maneuvers'
                                /\ resolved_maneuvers'[c] = Tail(q[c])
                   ELSE /\ Attitude(aircraft_list'[k]) = Attitude(aircraft_list[k])
                        /\ c \notin DOMAIN resolved_maneuvers'

\* C12: of the maneuvers one scan queues for an aircraft only the first is
\* applied, in the sim_step of that scan; the rest stays in
\* resolved_maneuvers until the next sim_step, whose scan discards it: that
\* sim_step applies to the aircraft the head of the queue its own scan
\* built, and nothing when its scan built none.
C12_OnlyHeadApplied == [][OnlyHeadApplied]_vars

\* a sim_step has discarded the rest of a queue and has left an aircraft
\* that is still in the list without a maneuver
C12_RestDiscarded ==
    /\ last_step.ran /\ ~last_step.raised
    /\ last_step.discarded
    /\ current_time_seconds = MaxTicks * TIME_STEP_SECONDS
    /\ \E k \in 1..Len(last_step.scanned) :
           last_step.scanned[k].callsign \notin DOMAIN last_step.queued

\* heading in [0, 360)
HeadingInRange(ac) == ac.heading >= 0 /\ ac.heading < 360

\* altitude >= 5000 and speed >= 200
AboveFloors(ac) ==
    /\ ac.z.inf \/ ac.z.ft >= ALTITUDE_FLOOR
    /\ ac.speed >= SPEED_FLOOR

\* C13: every aircraft of aircraft_list has a heading in [0, 360), and
\* apply_maneuver with any maneuver of the catalogue leaves it with an
\* altitude of at least 5000, a speed of at least 200 and a heading in
\* [0, 360).
C13_FloorsAndHeadingRange ==
    \A k \in 1..Len(aircraft_list) :
        LET ac == aircraft_list[k]
            options == MANEUVER_OPTIONS(ac.callsign, ac.callsign)
        IN  /\ HeadingInRange(ac)
            /\ \A n \in 1..Len(options) :
                   /\ AboveFloors(apply_maneuver(ac, options[n]))
                   /\ HeadingInRange(apply_maneuver(ac, options[n]))

\* position, altitude, speed and heading of an aircraft
Kinematics(ac) == <<ac.x, ac.y, ac.z, ac.speed, ac.heading>>

\* what a step does to the kinematic state of the aircraft
KinematicsFramed ==
    /\ \A k \in 1..Len(aircraft_list) :
           Attitude(update_position(aircraft_list[k])) = Attitude(aircraft_list[k])
    /\ Ticked =>
           /\ Len(last_step'.scanned) = Len(aircraft_list)
           /\ Len(aircraft_list') = Len(aircraft_list)
           /\ \A k \in 1..Len(aircraft_list) :
                  LET ac == aircraft_list[k]
                      c == ac.callsign
                      q == last_step'.queued
                  IN  /\ last_step'.scanned[k].callsign = c
                      /\ Kinematics(last_step'.scanned[k]) = Kinematics(ac)
                      /\ Kinematics(aircraft_list'[k]) =
                             IF last_step'.raised THEN Kinematics(ac)
                             ELSE IF c \in DOMAIN q
                             THEN Kinematics(update_position(apply_maneuver(ac, Head(q[c]))))
                             ELSE Kinematics(update_position(ac))
    /\ ~Ticked =>
           \/ aircraft_list' = aircraft_list
           \/ aircraft_list' = MainRoster
           \/ /\ Len(aircraft_list') = Len(aircraft_list) + 1
              /\ SubSeq(aircraft_list', 1, Len(aircraft_list)) = aircraft_list

\* C14: check_for_conflicts with the searches it runs leaves position,
\* altitude, speed and heading of every aircraft as they are; a sim_step
\* changes them by apply_maneuver and update_position alone;
\* update_position leaves altitude, speed and heading as they are; and the
\* other operations change no aircraft that is in the list.
C14_KinematicsFramed == [][KinematicsFramed]_vars

\* a sim_step whose scan ran a search that returned a plan of two maneuvers
\* has moved the aircraft
C14_SearchedAndMoved ==
    /\ last_step.ran /\ ~last_step.raised
    /\ \E n \in 1..Len(last_step.trace) :
           /\ last_step.trace[n].branch = "resolved"
           /\ Len(last_step.trace[n].path) >= 2
    /\ Len(aircraft_list) = Len(last_step.scanned)
    /\ \A k \in 1..Len(aircraft_list) :
           /\ aircraft_list[k].callsign = last_step.scanned[k].callsign
           /\ <<aircraft_list[k].x, aircraft_list[k].y>>
                  # <<last_step.scanned[k].x, last_step.scanned[k].y>>

\* the pair comes within HORIZONTAL_MIN at less than VERTICAL_MIN: now, at
\* negligible relative velocity, or within the lookahead
InConflict(a, b) ==
    /\ ~VerticallyApart(a, b)
    /\ IF Negligible(a, b) THEN NearNow(a, b) ELSE ConvergingWithin(a, b)

\* C15: the scan passes over a pair, with no report, no flag and no search,
\* exactly when an earlier search of the same scan has queued a maneuver
\* for one of its two aircraft, whether the pair is in conflict or not; an
\* aircraft of a resolved pair that no plan names has no queue, and the
\* pairs it is in later in the scan are not passed over on its account.
C15_SkippedWhenQueued ==
    \A n \in 1..Len(last_step.trace) :
        LET e == last_step.trace[n]
            a == last_step.scanned[e.i]
            b == last_step.scanned[e.j]
        IN  /\ e.branch = "queued" <=> QueuedBefore(n)
            /\ e.branch = "queued" =>
                   /\ ~ReportedAtAll(a, b)
                   /\ e.path = <<>>
                   /\ a.conflict_alert => FlaggedElsewhere(e.i, n)
                   /\ b.conflict_alert => FlaggedElsewhere(e.j, n)
            /\ e.branch = "resolved" =>
                   \A k \in {e.i, e.j} :
                       PlannedFor(last_step.scanned[k].callsign,
                                  Len(last_step.trace)) = <<>>
                           => last_step.scanned[k].callsign
                                  \notin DOMAIN last_step.queued

\* a scan has passed over a pair in conflict for the queue of one aircraft,
\* and has searched a later pair of an aircraft that an earlier plan left
\* unnamed
C15_ConflictSkippedUnnamedSearched ==
    /\ \E n \in 1..Len(last_step.trace) :
           /\ last_step.trace[n].branch = "queued"
           /\ InConflict(last_step.scanned[last_step.trace[n].i],
                         last_step.scanned[last_step.trace[n].j])
    /\ \E m, n \in 1..Len(last_step.trace) :
           /\ m < n
           /\ last_step.trace[m].branch = "resolved"
           /\ IsSearch(last_step.trace[n])
           /\ SearchPair(last_step.trace[m]) \cap SearchPair(last_step.trace[n]) # {}

\* |zA - zB| < VERTICAL_MIN, which is false of NaN
VSepBelow(a, b) ==
    ~a.z.inf /\ ~b.z.inf /\ Abs(a.z.ft - b.z.ft) < VERTICAL_MIN

\* |zA - zB| is NaN: both altitudes are infinite
VSepNaN(a, b) == a.z.inf /\ b.z.inf

\* the reading of C16 as it is stated: a pair that is not passed over for a
\* queue gets a search exactly when its vertical separation is below
\* VERTICAL_MIN, its relative speed squared is at least 0.001, its time of
\* closest approach is within 0 and the lookahead, and its separation then
\* is below HORIZONTAL_MIN; a pair passed over gets none.
C16_SearchWhenBelow ==
    \A n \in 1..Len(last_step.trace) :
        LET e == last_step.trace[n]
            a == last_step.scanned[e.i]
            b == last_step.scanned[e.j]
        IN  IF e.branch = "queued" THEN ~IsSearch(e)
            ELSE IsSearch(e) <=> /\ VSepBelow(a, b)
                                 /\ ~Negligible(a, b)
                                 /\ ConvergingWithin(a, b)

\* C16: a pair that is not passed over for a queue gets a search exactly
\* when its vertical separation is not >= VERTICAL_MIN (it is below
\* VERTICAL_MIN, or NaN for two infinite altitudes), its relative speed
\* squared is at least 0.001, its time of closest approach is within 0 and
\* the lookahead, and its separation then is below HORIZONTAL_MIN; a pair
\* passed over gets none.
C16_SearchWhenNotApart ==
    \A n \in 1..Len(last_step.trace) :
        LET e == last_step.trace[n]
            a == last_step.scanned[e.i]
            b == last_step.scanned[e.j]
        IN  IF e.branch = "queued" THEN ~IsSearch(e)
            ELSE IsSearch(e) <=> /\ VSepBelow(a, b) \/ VSepNaN(a, b)
                                 /\ ~Negligible(a, b)
                                 /\ ConvergingWithin(a, b)

\* a scan has run a search on a pair of two infinite altitudes and a search
\* on a pair of equal finite altitudes
C16_NaNPairSearched ==
    /\ \E n \in 1..Len(last_step.trace) :
           /\ IsSearch(last_step.trace[n])
           /\ VSepNaN(last_step.scanned[last_step.trace[n].i],
                      last_step.scanned[last_step.trace[n].j])
    /\ \E n \in 1..Len(last_step.trace) :
           /\ IsSearch(last_step.trace[n])
           /\ VSepBelow(last_step.scanned[last_step.trace[n].i],
                        last_step.scanned[last_step.trace[n].j])

RECURSIVE PlannedIn(_, _, _)
\* the maneuvers that name c in the plans of the first n pairs of trace
PlannedIn(trace, c, n) ==
    IF n = 0 THEN <<>>
    ELSE PlannedIn(trace, c, n - 1)
             \o (IF trace[n].branch = "resolved"
                 THEN Naming(trace[n].path, c, 1) ELSE <<>>)

\* the scan with this trace has flagged the aircraft at position k
FlaggedIn(trace, k) ==
    \E n \in 1..Len(trace) :
        /\ trace[n].branch \in {"failed", "immediate"}
        /\ k \in {trace[n].i, trace[n].j}

\* what a sim_step does with the flags and the queues it finds
ClearedAtScan ==
    Ticked =>
        /\ last_step'.discarded <=> resolved_maneuvers # <<>>
        /\ \A k \in 1..Len(aircraft_list) :
               LET c == aircraft_list[k].callsign
                   q == PlannedIn(last_step'.trace, c, Len(last_step'.trace))
               IN  /\ last_step'.scanned[k].conflict_alert
                          <=> FlaggedIn(last_step'.trace, k)
                   /\ IF q = <<>> THEN c \notin DOMAIN last_step'.queued
                      ELSE /\ c \in DOMAIN last_step'.queued
                           /\ last_step'.queued[c] = q
                   /\ (c \in DOMAIN resolved_maneuvers /\ q = <<>>
                       /\ ~last_step'.raised) =>
                          /\ Attitude(aircraft_list'[k]) = Attitude(aircraft_list[k])
                          /\ c \notin DOMAIN resolved_maneuvers'
        /\ \A c \in DOMAIN last_step'.queued :
               \E k \in 1..Len(aircraft_list) : aircraft_list[k].callsign = c

\* C17: every scan starts from flags all false and from no queue: a flag
\* that is set at its end was set by the scan itself, and a queue that
\* exists at its end holds nothing but the plans of the scan itself, so a
\* maneuver that is left in resolved_maneuvers after a sim_step is gone at
\* the next scan and is never applied.
C17_ClearedAtScan == [][ClearedAtScan]_vars

\* a scan has discarded what an earlier sim_step left in resolved_maneuvers
\* and has built queues of its own
C17_LeftoverDiscarded ==
    /\ last_step.ran
    /\ last_step.discarded
    /\ DOMAIN last_step.queued # {}

\* the latest scan reported a pair of this callsign with one of the statuses
ReportedWith(c, statuses) ==
    \E r \in 1..Len(last_step.conflicts) :
        /\ last_step.conflicts[r].status \in statuses
        /\ c \in {last_step.conflicts[r].a, last_step.conflicts[r].b}

\* C18: at the end of a scan the flag of an aircraft is true exactly when
\* the scan reported a pair of the aircraft as FAILED or NO_RES_ATTEMPTED;
\* an aircraft in RESOLVED pairs only, or in no reported pair, has it false.
C18_FlagIffUnresolvedReport ==
    \A k \in 1..Len(last_step.scanned) :
        last_step.scanned[k].conflict_alert
            <=> ReportedWith(last_step.scanned[k].callsign,
                             {"FAILED", "NO_RES_ATTEMPTED"})

\* a scan has flagged the two aircraft of a FAILED pair and has left the two
\* aircraft of a RESOLVED pair without a flag
C18_FailedFlaggedResolvedNot ==
    /\ \E k \in 1..Len(last_step.scanned) :
           /\ last_step.scanned[k].conflict_alert
           /\ ReportedWith(last_step.scanned[k].callsign, {"FAILED"})
    /\ \E k \in 1..Len(last_step.scanned) :
           /\ ~last_step.scanned[k].conflict_alert
           /\ ReportedWith(last_step.scanned[k].callsign, {"RESOLVED"})

\* the numbers of the nodes this step has added to the search
NewNodes == (Len(search.nodes) + 1)..Len(search'.nodes)

\* the node number i is on the open list
OnOpenList(open_list, i) == \E p \in 1..Len(open_list) : open_list[p] = i

\* what one iteration of the loop of a_star_search does with g_scores and
\* the open list
GScoresGuardPush ==
    (search.status = "running" /\ search'.status = "running") =>
        LET current == heappop(search.open_list, search.nodes).item
            options == MANEUVER_OPTIONS(search.A, search.B)
        IN  /\ \A h \in DOMAIN search.g_scores :
                   /\ h \in DOMAIN search'.g_scores
                   /\ search'.g_scores[h] <= search.g_scores[h]
            /\ \A n \in NewNodes :
                   LET h == StateHash(search'.nodes[n].aircraft_states)
                   IN  /\ h \notin DOMAIN search.g_scores
                          \/ search'.nodes[n].g_cost < search.g_scores[h]
                       /\ h \in DOMAIN search'.g_scores
                       /\ search'.g_scores[h] <= search'.nodes[n].g_cost
                       /\ OnOpenList(search'.open_list, n)
                       /\ \A m \in NewNodes :
                              (m < n /\ StateHash(search'.nodes[m].aircraft_states) = h)
                                  => search'.nodes[n].g_cost < search'.nodes[m].g_cost
            /\ \A k \in 1..Len(options) :
                   LET states == [search.nodes[current].aircraft_states EXCEPT
                                     ![options[k].callsign] =
                                         apply_maneuver(@, options[k])]
                       g == search.nodes[current].g_cost + cost(options[k])
                   IN  (StateHash(states) \in DOMAIN search.g_scores
                        /\ g >= search.g_scores[StateHash(states)]) =>
                           ~\E n \in NewNodes :
                                search'.nodes[n].maneuver = options[k]

\* C19: a successor goes on the open list only when its quantized state has
\* no g recorded or a g greater than its own; a successor whose g is the
\* recorded g or more is dropped; and the g recorded for a quantized state
\* never goes up.
C19_GScoresGuardPush == [][GScoresGuardPush]_vars

\* an iteration has dropped a successor: fewer nodes exist than 12 for each
\* node expanded
C19_SuccessorDropped ==
    /\ search.status = "running"
    /\ search.nodes_explored >= 1
    /\ Len(search.nodes) < 1 + 12 * search.nodes_explored

\* the callsign of the pair that is not c
Other(c) == IF c = search.A THEN search.B ELSE search.A

\* what one step of a_star_search puts in the nodes it makes
OnlyNamedChanged ==
    search'.status = "running" =>
        \A n \in (IF search.status = "running" THEN Len(search.nodes) + 1 ELSE 1)
                     ..Len(search'.nodes) :
            LET node == search'.nodes[n]
            IN  /\ DOMAIN node.aircraft_states = {pair.a.callsign, pair.b.callsign}
                /\ \A c \in DOMAIN node.aircraft_states :
                       /\ node.aircraft_states[c].x = InitialData(pair)[c].x
                       /\ node.aircraft_states[c].y = InitialData(pair)[c].y
                /\ IF node.parent = 0
                   THEN node.aircraft_states = InitialData(pair)
                   ELSE LET parent == search'.nodes[node.parent]
                            c == node.maneuver.callsign
                        IN  /\ node.aircraft_states[Other(c)]
                                   = parent.aircraft_states[Other(c)]
                            /\ node.aircraft_states[c]
                                   = apply_maneuver(parent.aircraft_states[c],
                                                    node.maneuver)

\* C20: a successor differs from its parent in the tuple of the aircraft
\* its maneuver names alone, the tuple of the other aircraft is that of the
\* parent, and the x and y of both aircraft are those of the starting pair
\* in every node of the search.
C20_OnlyNamedChanged == [][OnlyNamedChanged]_vars

\* the search holds a node in which the tuples of both aircraft differ from
\* those of the starting pair
C20_BothManeuvered ==
    /\ search.status = "running"
    /\ \E n \in 1..Len(search.nodes) :
           \A c \in DOMAIN search.nodes[n].aircraft_states :
               search.nodes[n].aircraft_states[c] # InitialData(pair)[c]

\* the numbers of the nodes a step of a_star_search has made: the root when
\* the search begins, the successors pushed by an iteration
MadeNodes ==
    (IF search.status = "running" THEN Len(search.nodes) + 1 ELSE 1)
        ..Len(search'.nodes)

\* the horizontal separation _calculate_cpa reports is HORIZONTAL_MIN or more
HSepReportedSafe(out) ==
    out.h_dist.inf \/ out.h_dist.d >= HORIZONTAL_MIN * DistScale

\* the vertical separation _calculate_cpa reports is VERTICAL_MIN or more
VSepReportedSafe(out) ==
    out.v_sep.k = "inf" \/ (out.v_sep.k = "num" /\ out.v_sep.v >= VERTICAL_MIN)

\* 5 * (max(0, Hmin - hsep) / Hmin + max(0, Vmin - vsep) / Vmin) in
\* 1/CostScale, the vertical term of a NaN separation being 0
DeficiencySum(out) ==
    (IF out.h_dist.inf THEN 0
     ELSE (Max(0, HORIZONTAL_MIN * DistScale - out.h_dist.d) * 5 * CostScale)
              \div (HORIZONTAL_MIN * DistScale))
    + (IF out.v_sep.k = "num"
       THEN (Max(0, VERTICAL_MIN - out.v_sep.v) * 5 * CostScale) \div VERTICAL_MIN
       ELSE 0)

\* h of a node is 0 when safe holds and the positive sum of the two
\* deficiencies otherwise, and f = g + h
ScoredAs(node, out, safe) ==
    /\ (node.h_cost = 0) <=> safe
    /\ ~safe => (node.h_cost = DeficiencySum(out) /\ node.h_cost > 0)
    /\ node.f_cost = node.g_cost + node.h_cost

\* what _calculate_cpa reports for the joint state of a node
CpaOfNode(node) ==
    calculate_cpa(node.aircraft_states, search'.A, search'.B,
                  search'.lookahead_min)

\* h = 0 exactly when both separations are reported at their minimum or more
HeuristicWhenSeparated ==
    search'.status = "running" =>
        \A n \in MadeNodes :
            ScoredAs(search'.nodes[n], CpaOfNode(search'.nodes[n]),
                     /\ HSepReportedSafe(CpaOfNode(search'.nodes[n]))
                     /\ VSepReportedSafe(CpaOfNode(search'.nodes[n])))

\* C21 as stated: for every node of the search h = 0 exactly when
\* _calculate_cpa reports a horizontal separation of HORIZONTAL_MIN or more
\* and a vertical separation of VERTICAL_MIN or more; otherwise h is the sum
\* of the two deficiencies times 5 and strictly positive; f = g + h.
C21_HeuristicZeroIffSeparated == [][HeuristicWhenSeparated]_vars

\* h = 0 exactly when the horizontal separation is reported at its minimum
\* or more and the vertical separation is not reported below its minimum
HeuristicWhenNotDeficient ==
    search'.status = "running" =>
        \A n \in MadeNodes :
            ScoredAs(search'.nodes[n], CpaOfNode(search'.nodes[n]),
                     /\ HSepReportedSafe(CpaOfNode(search'.nodes[n]))
                     /\ \/ VSepReportedSafe(CpaOfNode(search'.nodes[n]))
                        \/ CpaOfNode(search'.nodes[n]).v_sep.k = "nan")

\* C21: for every node of the search h = 0 exactly when _calculate_cpa
\* reports a horizontal separation of HORIZONTAL_MIN or more and a vertical
\* separation that is VERTICAL_MIN or more or NaN; otherwise h is the sum of
\* the two deficiencies times 5 (a NaN vertical separation adding nothing)
\* and strictly positive; f = g + h for every node pushed.
C21_HeuristicZeroIffNotDeficient == [][HeuristicWhenNotDeficient]_vars

\* the search holds a node of h = 0 whose vertical separation is NaN and a
\* node of h > 0
C21_ZeroAtNaNSeparation ==
    /\ search.status \in {"running", "found"}
    /\ \E n \in 1..Len(search.nodes) :
           /\ search.nodes[n].h_cost = 0
           /\ \A c \in DOMAIN search.nodes[n].aircraft_states :
                  search.nodes[n].aircraft_states[c].z.inf
    /\ \E n \in 1..Len(search.nodes) : search.nodes[n].h_cost > 0

\* C22: a_star_search returns None only after exactly max_search_nodes
\* pops: the open list is never empty while the search runs, that is before
\* a node of h = 0 is popped or the budget is used up.
C22_NoneOnlyAtBudget ==
    /\ search.status = "running" => search.open_list # <<>>
    /\ search.status = "none" =>
           /\ search.nodes_explored = max_search_nodes
           /\ search.open_list # <<>>

\* a search has returned None with nodes left on its open list
C22_NoneWithOpenNodes ==
    /\ search.status = "none"
    /\ Len(search.open_list) > 1
    /\ Len(search.nodes) >= search.nodes_explored + Len(search.open_list)

\* the number of fields of a maneuver that are not zero
NonZeroFields(m) ==
    (IF m.heading_change # 0 THEN 1 ELSE 0)
    + (IF m.altitude_change # 0 THEN 1 ELSE 0)
    + (IF m.speed_change # 0 THEN 1 ELSE 0)

\* the catalogue built for the pair holds the twelve maneuvers and each
\* costs what its single field costs
CatalogueOfTwelve(options, A, B) ==
    /\ Len(options) = 12
    /\ Cardinality({options[k] : k \in 1..Len(options)}) = 12
    /\ {options[k] : k \in 1..Len(options)}
           = {Maneuver(c, h, 0, 0) : c \in {A, B}, h \in {-10, 10, -5, 5}}
               \cup {Maneuver(c, 0, z, 0) : c \in {A, B}, z \in {-1000, 1000}}
    /\ \A k \in 1..Len(options) :
           /\ NonZeroFields(options[k]) = 1
           /\ options[k].speed_change = 0
           /\ cost(options[k]) > 0
           /\ cost(options[k])
                  = IF Abs(options[k].heading_change) = 10 THEN CostScale
                                                           ELSE CostScale \div 2

\* every successor a step makes carries a maneuver of the catalogue and the
\* g of its parent plus the cost of that maneuver, which is more
GIncreases ==
    search'.status = "running" =>
        /\ CatalogueOfTwelve(MANEUVER_OPTIONS(search'.A, search'.B),
                             pair.a.callsign, pair.b.callsign)
        /\ \A n \in MadeNodes :
               search'.nodes[n].parent # 0 =>
                   /\ \E k \in 1..12 :
                          MANEUVER_OPTIONS(search'.A, search'.B)[k]
                              = search'.nodes[n].maneuver
                   /\ search'.nodes[n].g_cost
                          = search'.nodes[search'.nodes[n].parent].g_cost
                              + cost(search'.nodes[n].maneuver)
                   /\ search'.nodes[n].g_cost
                          > search'.nodes[search'.nodes[n].parent].g_cost

\* C23: the catalogue holds exactly 12 maneuvers (heading -10, +10, -5, +5
\* and altitude -1000, +1000 for each of the two aircraft); each has exactly
\* one field that is not zero and none changes speed; each costs 0.5 (5
\* degrees, 1000 feet) or 1.0 (10 degrees), so g strictly increases from a
\* parent to its successor.
C23_CatalogueAndCosts == [][GIncreases]_vars

\* the search holds a successor of a successor, whose g is the sum of the
\* costs of a 10 degree and a 5 degree turn
C23_SecondGeneration ==
    /\ search.status = "running"
    /\ \E n \in 1..Len(search.nodes) :
           /\ search.nodes[n].parent # 0
           /\ search.nodes[search.nodes[n].parent].parent # 0
           /\ Abs(search.nodes[n].maneuver.heading_change) = 5
           /\ Abs(search.nodes[search.nodes[n].parent].maneuver.heading_change) = 10
           /\ search.nodes[n].g_cost = CostScale + CostScale \div 2

\* the aircraft as apply_resolved_maneuvers leaves it when the queues are q
Maneuvered(ac, q) ==
    IF ac.callsign \in DOMAIN q THEN apply_maneuver(ac, Head(q[ac.callsign]))
    ELSE ac

\* a sim_step runs its three parts in order and to the end: the scan sees
\* the aircraft as they were, update_position moves every aircraft once from
\* where apply_resolved_maneuvers left it, and the clock moves on by one step
TickInOrder ==
    Ticked =>
        /\ Len(last_step'.scanned) = Len(aircraft_list)
        /\ Len(aircraft_list') = Len(aircraft_list)
        /\ \A k \in 1..Len(aircraft_list) :
               /\ Kinematics(last_step'.scanned[k]) = Kinematics(aircraft_list[k])
               /\ Kinematics(aircraft_list'[k])
                      = Kinematics(update_position(
                            Maneuvered(aircraft_list[k], last_step'.queued)))
        /\ current_time_seconds' = current_time_seconds + TIME_STEP_SECONDS

\* C24: in every sim_step the scan completes before any queued maneuver is
\* applied, all maneuvers are applied before any position advances, every
\* aircraft's position is advanced exactly once by the 5-second step, and
\* the step finishes before the next one begins.
C24_TickInOrder == [][TickInOrder]_vars

\* the vertical separation of the pair after the plan has been applied to
\* the starting pair
VSepAfter(path) ==
    VSep(Replay(InitialData(pair), path, 1)[pair.a.callsign].z,
         Replay(InitialData(pair), path, 1)[pair.b.callsign].z)

\* a maneuver of the plan changes altitude
ChangesAltitude(path) ==
    \E k \in 1..Len(path) : path[k].altitude_change # 0

\* a node is terminal exactly when its vertical separation is VERTICAL_MIN
\* or more, and a plan that is returned leaves the pair so and changes
\* altitude
TerminalWhenApart ==
    /\ search'.status = "running" =>
           \A n \in MadeNodes :
               (search'.nodes[n].h_cost = 0)
                   <=> VSepReportedSafe(CpaOfNode(search'.nodes[n]))
    /\ (search.status = "running" /\ search'.status = "found"
        /\ search'.path # <<>>) =>
           /\ VSepAfter(search'.path).k # "nan"
           /\ VSepAfter(search'.path).k = "num"
                  => VSepAfter(search'.path).v >= VERTICAL_MIN
           /\ ChangesAltitude(search'.path)

\* C25 as stated: a node is terminal (h = 0) if and only if the vertical
\* separation of its joint state is VERTICAL_MIN or more, whatever the
\* horizontal geometry; so every plan a_star_search returns ends in a state
\* of vertical separation VERTICAL_MIN or more and holds at least one
\* altitude change, and no plan of heading changes alone is returned.
C25_TerminalIffVerticallyApart == [][TerminalWhenApart]_vars

\* the same with the NaN separation of two infinite altitudes set apart: a
\* node of such a pair is terminal exactly when its horizontal separation
\* is HORIZONTAL_MIN or more, and its plans change headings alone
TerminalWhenApartOrNaN ==
    /\ search'.status = "running" =>
           \A n \in MadeNodes :
               (search'.nodes[n].h_cost = 0)
                   <=> \/ VSepReportedSafe(CpaOfNode(search'.nodes[n]))
                       \/ /\ CpaOfNode(search'.nodes[n]).v_sep.k = "nan"
                          /\ HSepReportedSafe(CpaOfNode(search'.nodes[n]))
    /\ (search.status = "running" /\ search'.status = "found"
        /\ search'.path # <<>>) =>
           IF VSepNaN(pair.a, pair.b)
           THEN /\ ~ChangesAltitude(search'.path)
                /\ VSepAfter(search'.path).k = "nan"
           ELSE /\ VSepAfter(search'.path).k = "num"
                /\ VSepAfter(search'.path).v >= VERTICAL_MIN
                /\ \/ search'.path[Len(search'.path)].altitude_change # 0
                   \/ pair.a.z.ft < ALTITUDE_FLOOR
                   \/ pair.b.z.ft < ALTITUDE_FLOOR

\* C25: a node whose vertical separation is a number is terminal (h = 0) if
\* and only if that separation is VERTICAL_MIN or more, whatever the
\* horizontal geometry, and every plan returned for such a pair ends in a
\* state of vertical separation VERTICAL_MIN or more, with an altitude
\* change as its last maneuver when both aircraft start at ALTITUDE_FLOOR or
\* above (apply_maneuver lifts an aircraft below the floor to the floor under
\* a heading change too); a node whose vertical separation is NaN (both
\* altitudes infinite) is terminal if and only if its horizontal separation
\* is HORIZONTAL_MIN or more, and a plan returned for such a pair holds
\* heading changes alone.
C25_TerminalIffApartOrNaN == [][TerminalWhenApartOrNaN]_vars

\* a plan of heading changes alone has been returned for a pair of infinite
\* altitudes
C25_HeadingOnlyPlan ==
    /\ search.status = "found"
    /\ search.path # <<>>
    /\ VSepNaN(pair.a, pair.b)
    /\ \A k \in 1..Len(search.path) :
           search.path[k].heading_change # 0 /\ search.path[k].altitude_change = 0

\* the number of nodes a_star_search pops for the pair
Pops(a, b) == a_star_search(a, b, lookahead_time_min).nodes_explored

\* the plan is one maneuver, which changes altitude
OneAltitudeChange(path) ==
    /\ Len(path) = 1
    /\ path[1].altitude_change # 0
    /\ path[1].heading_change = 0

SearchOutcome(e, a, b) ==
    IF VSepNaN(a, b)
    THEN \/ /\ e.branch = "failed"
            /\ \E k \in 1..Len(last_step.conflicts) :
                   /\ last_step.conflicts[k].a = a.callsign
                   /\ last_step.conflicts[k].b = b.callsign
                   /\ last_step.conflicts[k].status = "FAILED"
         \/ /\ e.branch = "resolved"
            /\ e.path # <<>>
            /\ \A k \in 1..Len(e.path) :
                   e.path[k].altitude_change = 0 /\ e.path[k].heading_change # 0
    ELSE /\ e.branch = "resolved"
         /\ Len(e.path) = 1
         /\ \/ OneAltitudeChange(e.path)
            \/ a.z.ft < ALTITUDE_FLOOR
            \/ b.z.ft < ALTITUDE_FLOOR
         /\ Pops(a, b) = 2
         /\ last_step.queued[e.path[1].callsign] = e.path

ApartAfterSuccess ==
    TickCompleted =>
        \A n \in 1..Len(last_step'.trace) :
            last_step'.trace[n].branch = "resolved" =>
                VerticallyApart(aircraft_list'[last_step'.trace[n].i],
                                aircraft_list'[last_step'.trace[n].j])

\* C27: when the search for a pair succeeds in one tick, the two aircraft
\* have a vertical separation of VERTICAL_MIN or more at the start of the
\* next tick, whatever other aircraft and searches the tick has.
C27_ApartAfterSuccess == [][ApartAfterSuccess]_vars

\* C28: whenever two aircraft that the already-queued rule does not skip
\* are, when the scan comes to them, closer than HORIZONTAL_MIN horizontally
\* and closer than VERTICAL_MIN vertically, the report of check_for_conflicts
\* holds that pair, be the two converging, diverging or parallel.
C28_NearPairReported ==
    (last_step.ran /\ ~last_step.raised) =>
        \A n \in 1..Len(last_step.trace) :
            LET a == last_step.scanned[last_step.trace[n].i]
                b == last_step.scanned[last_step.trace[n].j]
            IN  (/\ last_step.trace[n].branch # "queued"
                 /\ NearNow(a, b)
                 /\ VSepBelow(a, b)) => ReportedAtAll(a, b)

\* the maneuvers of the catalogue that name the aircraft
OptionsFor(ac) ==
    {MANEUVER_OPTIONS(ac.callsign, ac.callsign)[k] : k \in 1..12}

\* C29 as stated: apply_maneuver changes only the fields whose change is not
\* zero: a heading change leaves altitude and speed as they are and an
\* altitude change leaves heading and speed as they are, for every aircraft,
\* also one created below the altitude or the speed floor.
C29_OnlyChangedFields ==
    \A k \in 1..Len(aircraft_list) :
        \A m \in OptionsFor(aircraft_list[k]) :
            /\ m.heading_change = 0 =>
                   apply_maneuver(aircraft_list[k], m).heading
                       = aircraft_list[k].heading
            /\ m.altitude_change = 0 =>
                   apply_maneuver(aircraft_list[k], m).z = aircraft_list[k].z
            /\ m.speed_change = 0 =>
                   apply_maneuver(aircraft_list[k], m).speed
                       = aircraft_list[k].speed

\* what apply_maneuver leaves in the fields whose change is zero
ZeroChangeNormalizes(ac, m) ==
    /\ m.heading_change = 0 =>
           apply_maneuver(ac, m).heading
               = IF ac.heading >= 0 /\ ac.heading < 360 THEN ac.heading ELSE 0
    /\ m.altitude_change = 0 =>
           apply_maneuver(ac, m).z
               = IF ~ac.z.inf /\ ac.z.ft < ALTITUDE_FLOOR THEN Ft(ALTITUDE_FLOOR)
                 ELSE ac.z
    /\ m.speed_change = 0 =>
           apply_maneuver(ac, m).speed
               = IF ac.speed < SPEED_FLOOR THEN SPEED_FLOOR ELSE ac.speed
    /\ apply_maneuver(ac, m).x = ac.x
    /\ apply_maneuver(ac, m).y = ac.y
    /\ apply_maneuver(ac, m).callsign = ac.callsign

\* C29: apply_maneuver leaves a field whose change is zero as it is when the
\* field is in its range (altitude at ALTITUDE_FLOOR or above, speed at
\* SPEED_FLOOR or above, heading in [0, 360)), and sets it to the floor, or
\* the heading 360 to 0, when it is not: every maneuver lifts an aircraft
\* created below a floor to that floor.
C29_ZeroChangeNormalizes ==
    \A k \in 1..Len(aircraft_list) :
        \A m \in OptionsFor(aircraft_list[k]) :
            ZeroChangeNormalizes(aircraft_list[k], m)

\* a sim_step has applied a heading change to an aircraft that was below
\* both floors and is now at both
C29_HeadingChangeLifted ==
    /\ last_step.ran
    /\ \E k \in 1..Len(last_step.scanned) :
           LET c == last_step.scanned[k].callsign
           IN  /\ c \in DOMAIN last_step.queued
               /\ Head(last_step.queued[c]).altitude_change = 0
               /\ Head(last_step.queued[c]).speed_change = 0
               /\ last_step.scanned[k].z.ft < ALTITUDE_FLOOR
               /\ last_step.scanned[k].speed < SPEED_FLOOR
               /\ aircraft_list[k].z = Ft(ALTITUDE_FLOOR)
               /\ aircraft_list[k].speed = SPEED_FLOOR

\* C30: at most one sim_step callback is pending at any time, under every
\* interleaving of start_sim, stop_sim, restart_sim and the timer, so that
\* the clock advances by one 5-second step per timer period while the
\* simulation runs.
C30_OneCallbackPending == pending <= 1

\* the plan of a trace entry is what a_star_search returns for the two
\* aircraft as they are before the step
PlannedNow(e) ==
    e.branch = "resolved" =>
        a_star_search(aircraft_list[e.i], aircraft_list[e.j],
                      lookahead_time_min).path = e.path

\* a step changes heading, altitude and speed of an aircraft only by the
\* first maneuver that the scan of that very step has planned for it, on
\* the aircraft as they are at that scan; no other step changes them, and
\* restart_sim leaves the roster as __main__ builds it
AppliedWhereScanned ==
    /\ Ticked =>
           /\ Len(aircraft_list') = Len(aircraft_list)
           /\ \A n \in 1..Len(last_step'.trace) : PlannedNow(last_step'.trace[n])
           /\ \A k \in 1..Len(aircraft_list) :
                  Attitude(aircraft_list'[k])
                      = Attitude(
                            IF last_step'.raised
                               \/ PlannedIn(last_step'.trace,
                                            aircraft_list[k].callsign,
                                            Len(last_step'.trace)) = <<>>
                            THEN aircraft_list[k]
                            ELSE apply_maneuver(
                                     aircraft_list[k],
                                     Head(PlannedIn(last_step'.trace,
                                                    aircraft_list[k].callsign,
                                                    Len(last_step'.trace)))))
    /\ ~Ticked =>
           \/ aircraft_list' = aircraft_list
           \/ aircraft_list' = MainRoster /\ resolved_maneuvers' = resolved_maneuvers
           \/ /\ Len(aircraft_list') = Len(aircraft_list) + 1
              /\ SubSeq(aircraft_list', 1, Len(aircraft_list)) = aircraft_list

\* C31: a maneuver is applied to an aircraft only in the sim_step whose scan
\* produced it: a maneuver that was queued before stop_sim or restart_sim is
\* never applied to an aircraft of the roster restart_sim builds, although
\* restart_sim leaves resolved_maneuvers as it is and the callsigns are the
\* same.
C31_AppliedWhereScanned == [][AppliedWhereScanned]_vars

\* restart_sim has built the roster anew while resolved_maneuvers holds a
\* maneuver, queued by an earlier sim_step, for one of its callsigns
C31_QueueSurvivesRestart ==
    /\ last_step.ran
    /\ ~running
    /\ message = "Simulation restarted successfully"
    /\ aircraft_list = MainRoster
    /\ current_time_seconds = 0
    /\ \E k \in 1..Len(MainRoster) :
           /\ MainRoster[k].callsign \in DOMAIN resolved_maneuvers
           /\ resolved_maneuvers[MainRoster[k].callsign] # <<>>

=============================================================================
